---- MODULE Spec2Model ----
(***************************************************************************)
(* Finite-Automata designer: the automaton engine (lib/automata-engine.ts) *)
(* and the useAutomata hook that edits one automaton and holds the result  *)
(* of the last minimization.                                               *)
(*                                                                         *)
(* Representation.  Identifiers and symbols are strings.  A State is       *)
(* represented by its id, the only field the engine and the hook read.     *)
(* Arrays are sequences.  A JavaScript Set that is only tested, sized,     *)
(* sorted or folded into another Set is a set; a Set or Map whose          *)
(* iteration order reaches a result is a sequence in insertion order.      *)
(* null and undefined are the reserved value Null, which is no identifier; *)
(* a null automaton or MinimizationResult is the empty tuple.              *)
(***************************************************************************)
EXTENDS Integers, Sequences, FiniteSets, TLC

VARIABLES
    automaton,           \* useAutomata: the current automaton, or NoAutomaton
    minimizationResult,  \* useAutomata: the held MinimizationResult, or NoResult
    showOriginalDFA,     \* useAutomata: the view flag
    operations,          \* useAutomata: how many callbacks have run so far
    input,               \* engine call: the argument handed to the engine
    output,              \* engine call: what the engine returned
    pc                   \* engine call: which call has been made

vars == <<automaton, minimizationResult, showOriginalDFA, operations, input, output, pc>>

Null == "<null>"
NoAutomaton == <<>>
NoResult == <<>>
NoValue == <<>>

(***************************************************************************)
(* Arrays and strings                                                      *)
(***************************************************************************)
\* A const declaration: the value is computed once, then the body reads it
With(value, Body(_)) == CHOOSE result \in {Body(v) : v \in {value}} : TRUE

Range(s) == {s[i] : i \in 1..Len(s)}

Includes(s, x) == \E i \in 1..Len(s) : s[i] = x

\* Array.from(new Set(s)): the distinct elements in order of first occurrence
RECURSIVE Distinct(_)
Distinct(s) ==
    IF s = <<>> THEN <<>>
    ELSE LET front == Distinct(SubSeq(s, 1, Len(s) - 1))
             last == s[Len(s)]
         IN IF Includes(front, last) THEN front ELSE Append(front, last)

\* String.fromCharCode(65 + k) for k = 0..25
Letters ==
    << "A", "B", "C", "D", "E", "F", "G", "H", "I", "J", "K", "L", "M",
       "N", "O", "P", "Q", "R", "S", "T", "U", "V", "W", "X", "Y", "Z" >>

\* The UTF-16 code unit of a one-character string (the characters the model uses)
CharCode(c) ==
    IF \E k \in 1..26 : Letters[k] = c
    THEN 64 + (CHOOSE k \in 1..26 : Letters[k] = c)
    ELSE CASE c = "," -> 44
           [] c = "-" -> 45
           [] c = "0" -> 48
           [] c = "1" -> 49
           [] c = "<" -> 60
           [] c = ">" -> 62
           [] c = "a" -> 97
           [] c = "b" -> 98
           [] c = "e" -> 101
           [] c = "l" -> 108
           [] c = "n" -> 110
           [] c = "u" -> 117
           [] c = "ε" -> 949

\* x < y in the order Array.prototype.sort uses by default (code units)
RECURSIVE StrLess(_, _)
StrLess(x, y) ==
    IF y = "" THEN FALSE
    ELSE IF x = "" THEN TRUE
    ELSE LET cx == CharCode(SubSeq(x, 1, 1))
             cy == CharCode(SubSeq(y, 1, 1))
         IN IF cx # cy THEN cx < cy
            ELSE StrLess(SubSeq(x, 2, Len(x)), SubSeq(y, 2, Len(y)))

\* What sort and join make of an element: null sorts as "null" and joins as ""
SortText(x) == IF x = Null THEN "null" ELSE x
JoinText(x) == IF x = Null THEN "" ELSE x

\* Array.from(set).sort()
RECURSIVE Sorted(_)
Sorted(set) ==
    IF set = {} THEN <<>>
    ELSE LET least == CHOOSE x \in set :
                          \A y \in set \ {x} : StrLess(SortText(x), SortText(y))
         IN <<least>> \o Sorted(set \ {least})

\* Array.prototype.join(sep)
RECURSIVE Join(_, _)
Join(s, sep) ==
    IF s = <<>> THEN ""
    ELSE IF Len(s) = 1 THEN JoinText(s[1])
    ELSE JoinText(s[1]) \o sep \o Join(Tail(s), sep)

\* String.prototype.split(sep) for a one-character separator
RECURSIVE SplitFrom(_, _, _)
SplitFrom(str, sep, piece) ==
    IF str = "" THEN <<piece>>
    ELSE IF SubSeq(str, 1, 1) = sep
         THEN <<piece>> \o SplitFrom(SubSeq(str, 2, Len(str)), sep, "")
         ELSE SplitFrom(SubSeq(str, 2, Len(str)), sep, piece \o SubSeq(str, 1, 1))

Split(str, sep) == SplitFrom(str, sep, "")

(***************************************************************************)
(* AutomataEngine: classification                                          *)
(***************************************************************************)
\* Variant: only the Greek letter marks an epsilon transition
isEpsilonGreekOnly(symbol) == symbol = "ε"

isEpsilon(symbol) ==
    symbol = "ε" \/ symbol = "e" \/ symbol = "E" \/ symbol = ""

\* The Map key `${transition.from}-${transition.symbol}`
TransitionKey(t) == t.from \o "-" \o t.symbol

\* The destinations the Map gathers under one key
Destinations(transitions, key) ==
    {transitions[i].to : i \in {j \in 1..Len(transitions) :
                                   TransitionKey(transitions[j]) = key}}

\* Variant: the destinations kept in a list, so that a repeated triple counts twice
hasNondeterministicTransitionsCounting(transitions) ==
    \E i \in 1..Len(transitions) :
        Cardinality({j \in 1..Len(transitions) :
                        TransitionKey(transitions[j]) = TransitionKey(transitions[i])}) > 1

hasNondeterministicTransitions(transitions) ==
    \E i \in 1..Len(transitions) :
        Cardinality(Destinations(transitions, TransitionKey(transitions[i]))) > 1

determineAutomatonType(a) ==
    IF \E i \in 1..Len(a.transitions) : isEpsilon(a.transitions[i].symbol)
    THEN "NFA"
    ELSE IF hasNondeterministicTransitions(a.transitions) THEN "NFA"
    ELSE "DFA"

\* The Set the Map of analyzeAutomaton holds under one key, in insertion order
DestinationList(transitions, key) ==
    LET Keyed(t) == TransitionKey(t) = key
        keyed == SelectSeq(transitions, Keyed)
    IN Distinct([i \in 1..Len(keyed) |-> keyed[i].to])

\* const [from, symbol] = key.split("-"): the first two pieces
analyzeAutomaton(a) ==
    LET IsEps(t) == isEpsilon(t.symbol)
        epsilonTransitions == SelectSeq(a.transitions, IsEps)
        keys == Distinct([i \in 1..Len(a.transitions) |->
                             TransitionKey(a.transitions[i])])
        Several(key) == Len(DestinationList(a.transitions, key)) > 1
        severalKeys == SelectSeq(keys, Several)
        nondeterministicTransitions ==
            [i \in 1..Len(severalKeys) |->
                [from |-> Split(severalKeys[i], "-")[1],
                 symbol |-> Split(severalKeys[i], "-")[2],
                 destinations |-> DestinationList(a.transitions, severalKeys[i])]]
    IN [hasEpsilonTransitions |-> Len(epsilonTransitions) > 0,
        hasNondeterministicTransitions |-> Len(nondeterministicTransitions) > 0,
        epsilonTransitions |-> epsilonTransitions,
        nondeterministicTransitions |-> nondeterministicTransitions]

\* The alphabet every engine function derives: distinct non-epsilon symbols
NonEpsilonAlphabet(a) ==
    LET symbols == [i \in 1..Len(a.transitions) |-> a.transitions[i].symbol]
        NotEps(s) == ~isEpsilon(s)
    IN SelectSeq(Distinct(symbols), NotEps)

\* Variant: a symbol counts as covered once any state has a transition on it
isCompleteDFASomeState(a) ==
    IF a.type = "NFA" THEN FALSE
    ELSE IF \E i \in 1..Len(a.transitions) : isEpsilon(a.transitions[i].symbol)
    THEN FALSE
    ELSE IF hasNondeterministicTransitions(a.transitions) THEN FALSE
    ELSE LET alphabet == NonEpsilonAlphabet(a)
         IN \A k \in 1..Len(alphabet) :
                \E j \in 1..Len(a.transitions) :
                    a.transitions[j].symbol = alphabet[k]

isCompleteDFA(a) ==
    IF a.type = "NFA" THEN FALSE
    ELSE IF \E i \in 1..Len(a.transitions) : isEpsilon(a.transitions[i].symbol)
    THEN FALSE
    ELSE IF hasNondeterministicTransitions(a.transitions) THEN FALSE
    ELSE LET alphabet == NonEpsilonAlphabet(a)
         IN \A i \in 1..Len(a.states) : \A k \in 1..Len(alphabet) :
                \E j \in 1..Len(a.transitions) :
                    /\ a.transitions[j].from = a.states[i]
                    /\ a.transitions[j].symbol = alphabet[k]

(***************************************************************************)
(* AutomataEngine: state names                                             *)
(***************************************************************************)
\* One turn of the do-while loop: prepend a letter, divide, repeat while num > 0
RECURSIVE NameLoop(_, _)
NameLoop(num, result) ==
    LET next == Letters[(num % 26) + 1] \o result
        rest == num \div 26
    IN IF rest > 0 THEN NameLoop(rest, next) ELSE next

generateAlphabeticStateName(index) == NameLoop(index, "")

(***************************************************************************)
(* AutomataEngine: acceptance                                              *)
(***************************************************************************)
\* !x for a string-or-null x
Falsy(x) == x = Null \/ x = ""

\* automaton.transitions.filter(t => t.from === state && isEpsilon(t.symbol))
EpsilonTransitionsFrom(a, state) ==
    LET IsEps(t) == t.from = state /\ isEpsilon(t.symbol)
    IN SelectSeq(a.transitions, IsEps)

\* The for loop of epsilonClosure over the epsilon transitions of one state
RECURSIVE ClosureVisit(_, _, _)
ClosureVisit(closure, stack, ts) ==
    IF ts = <<>> THEN <<closure, stack>>
    ELSE IF Head(ts).to \in closure THEN ClosureVisit(closure, stack, Tail(ts))
    ELSE ClosureVisit(closure \cup {Head(ts).to}, Append(stack, Head(ts).to), Tail(ts))

\* The while loop of epsilonClosure: pop a state, visit its epsilon transitions
RECURSIVE ClosureLoop(_, _, _)
ClosureLoop(a, closure, stack) ==
    IF stack = <<>> THEN closure
    ELSE LET state == stack[Len(stack)]
             visited == ClosureVisit(closure, SubSeq(stack, 1, Len(stack) - 1),
                                     EpsilonTransitionsFrom(a, state))
         IN ClosureLoop(a, visited[1], visited[2])

\* Variant: no epsilon transition is followed
epsilonClosureNone(a, states) == states

\* The stack starts as Array.from(states); the closure does not depend on its order

epsilonClosure(a, states) == ClosureLoop(a, states, Sorted(states))

\* Variant: the destinations on any symbol at all
MoveAnySymbol(a, states, symbol) ==
    {a.transitions[i].to : i \in {j \in 1..Len(a.transitions) :
         a.transitions[j].from \in states}}

\* The union of the destinations of the given states on one symbol
Move(a, states, symbol) ==
    {a.transitions[i].to : i \in {j \in 1..Len(a.transitions) :
         /\ a.transitions[j].from \in states
         /\ a.transitions[j].symbol = symbol}}

\* transitions.find(t => t.from === state && t.symbol === symbol); undefined is NoValue
FindTransition(a, state, symbol) ==
    LET hits == {j \in 1..Len(a.transitions) :
                    /\ a.transitions[j].from = state
                    /\ a.transitions[j].symbol = symbol}
    IN IF hits = {} THEN NoValue
       ELSE a.transitions[CHOOSE j \in hits : \A k \in hits : j <= k]

RECURSIVE WalkDFA(_, _, _, _)
WalkDFA(a, currentState, path, rest) ==
    IF rest = <<>>
    THEN [accepted |-> Includes(a.finalStates, currentState), path |-> path]
    ELSE LET transition == FindTransition(a, currentState, Head(rest))
         IN IF transition = NoValue THEN [accepted |-> FALSE, path |-> path]
            ELSE WalkDFA(a, transition.to, Append(path, transition.to), Tail(rest))

testStringDFA(a, word) == WalkDFA(a, a.startState, <<a.startState>>, word)

setToKey(stateSet) == Join(Sorted(stateSet), ",")

keyToSet(key) == IF key = "" THEN {} ELSE Range(Split(key, ","))

RECURSIVE WalkNFA(_, _, _, _)
WalkNFA(a, currentStates, path, rest) ==
    IF rest = <<>>
    THEN [accepted |-> \E state \in currentStates : Includes(a.finalStates, state),
          path |-> path]
    ELSE LET nextStates == Move(a, currentStates, Head(rest))
         IN IF nextStates = {} THEN [accepted |-> FALSE, path |-> path]
            ELSE LET closure == epsilonClosure(a, nextStates)
                 IN WalkNFA(a, closure, Append(path, setToKey(closure)), Tail(rest))

testStringNFA(a, word) ==
    LET currentStates == epsilonClosure(a, {a.startState})
    IN WalkNFA(a, currentStates, <<setToKey(currentStates)>>, word)

\* Variant: the automaton is run without a look at its start state
testStringUnguarded(a, word) ==
    IF a.type = "DFA" THEN testStringDFA(a, word)
    ELSE testStringNFA(a, word)

\* word: the characters of the input string, in order
testString(a, word) ==
    IF Falsy(a.startState) THEN [accepted |-> FALSE]
    ELSE IF a.type = "DFA" THEN testStringDFA(a, word)
    ELSE testStringNFA(a, word)

(***************************************************************************)
(* AutomataEngine: subset construction                                     *)
(***************************************************************************)
\* Map.get on a Map kept as a sequence of [key, name] entries; Null when absent
MapGet(map, key) ==
    IF \E i \in 1..Len(map) : map[i].key = key
    THEN map[CHOOSE i \in 1..Len(map) : map[i].key = key].name
    ELSE Null

\* The body of `for (const symbol of alphabet)` for one dequeued state set
ConvertSymbol(nfa, st, currentStateSet, currentStateName, symbol) ==
    LET nextStates == Move(nfa, currentStateSet, symbol)
    IN IF nextStates = {}
       THEN [st EXCEPT !.missingTransitions =
                 Append(@, [from |-> currentStateName, symbol |-> symbol])]
       ELSE LET nextClosure == epsilonClosure(nfa, nextStates)
                nextKey == setToKey(nextClosure)
                known == MapGet(st.stateMap, nextKey)
                fresh == generateAlphabeticStateName(st.stateCounter)
                nextStateName == IF Falsy(known) THEN fresh ELSE known
                grown == IF Falsy(known)
                         THEN [st EXCEPT
                                 !.stateCounter = @ + 1,
                                 !.dfaStates = Append(@, fresh),
                                 !.stateMap = Append(@, [key |-> nextKey, name |-> fresh]),
                                 !.queue = Append(@, nextClosure)]
                         ELSE st
            IN [grown EXCEPT !.dfaTransitions =
                    Append(@, [from |-> currentStateName, to |-> nextStateName,
                               symbol |-> symbol])]

RECURSIVE ConvertSymbols(_, _, _, _, _)
ConvertSymbols(nfa, st, currentStateSet, currentStateName, symbols) ==
    IF symbols = <<>> THEN st
    ELSE ConvertSymbols(nfa,
             ConvertSymbol(nfa, st, currentStateSet, currentStateName, Head(symbols)),
             currentStateSet, currentStateName, Tail(symbols))

\* while (queue.length > 0)
RECURSIVE ConvertQueue(_, _, _)
ConvertQueue(nfa, st, alphabet) ==
    IF st.queue = <<>> THEN st
    ELSE LET currentStateSet == Head(st.queue)
             currentStateName == MapGet(st.stateMap, setToKey(currentStateSet))
         IN ConvertQueue(nfa,
                ConvertSymbols(nfa, [st EXCEPT !.queue = Tail(@)],
                               currentStateSet, currentStateName, alphabet),
                alphabet)

\* Variant: the dead state without its self-loops
WithDeadStateNoLoops(st, alphabet) ==
    IF st.missingTransitions = <<>> THEN st
    ELSE LET deadStateName == generateAlphabeticStateName(st.stateCounter)
         IN [st EXCEPT
               !.stateCounter = @ + 1,
               !.dfaStates = Append(@, deadStateName),
               !.dfaTransitions = @
                   \o [i \in 1..Len(st.missingTransitions) |->
                         [from |-> st.missingTransitions[i].from, to |-> deadStateName,
                          symbol |-> st.missingTransitions[i].symbol]]]

\* The dead state and its transitions, when some transition was missing
WithDeadState(st, alphabet) ==
    IF st.missingTransitions = <<>> THEN st
    ELSE LET deadStateName == generateAlphabeticStateName(st.stateCounter)
         IN [st EXCEPT
               !.stateCounter = @ + 1,
               !.dfaStates = Append(@, deadStateName),
               !.dfaTransitions = @
                   \o [i \in 1..Len(st.missingTransitions) |->
                         [from |-> st.missingTransitions[i].from, to |-> deadStateName,
                          symbol |-> st.missingTransitions[i].symbol]]
                   \o [k \in 1..Len(alphabet) |->
                         [from |-> deadStateName, to |-> deadStateName,
                          symbol |-> alphabet[k]]]]

convertNFAToDFA(nfa) ==
    IF nfa.type = "DFA" THEN nfa
    ELSE LET startClosure == epsilonClosure(nfa, {nfa.startState})
             startStateName == generateAlphabeticStateName(0)
             alphabet == NonEpsilonAlphabet(nfa)
             st0 == [dfaStates |-> <<startStateName>>,
                     dfaTransitions |-> <<>>,
                     stateMap |-> <<[key |-> setToKey(startClosure),
                                     name |-> startStateName]>>,
                     queue |-> <<startClosure>>,
                     stateCounter |-> 1,
                     missingTransitions |-> <<>>]
             st == WithDeadState(ConvertQueue(nfa, st0, alphabet), alphabet)
             IsFinalEntry(entry) ==
                 \E state \in keyToSet(entry.key) : Includes(nfa.finalStates, state)
             finalEntries == SelectSeq(st.stateMap, IsFinalEntry)
         IN [states |-> st.dfaStates,
             transitions |-> st.dfaTransitions,
             startState |-> startStateName,
             finalStates |-> [i \in 1..Len(finalEntries) |-> finalEntries[i].name],
             type |-> "DFA"]

(***************************************************************************)
(* AutomataEngine: completion                                              *)
(***************************************************************************)
HasTransitionOn(a, state, symbol) ==
    \E j \in 1..Len(a.transitions) :
        a.transitions[j].from = state /\ a.transitions[j].symbol = symbol

\* The nested for loops over states and alphabet: the pairs without a transition
MissingTransitions(a, alphabet) ==
    LET m == Len(alphabet)
        pairs == [p \in 1..(Len(a.states) * m) |->
                    [from |-> a.states[((p - 1) \div m) + 1],
                     symbol |-> alphabet[((p - 1) % m) + 1]]]
        IsMissing(pair) == ~HasTransitionOn(a, pair.from, pair.symbol)
    IN SelectSeq(pairs, IsMissing)

\* Variant: the first name is taken without looking at the existing names
FreeStateNameFirst(existingStateNames, deadStateIndex) ==
    generateAlphabeticStateName(deadStateIndex)

\* while (existingStateNames.includes(deadStateName)) deadStateIndex++
RECURSIVE FreeStateName(_, _)
FreeStateName(existingStateNames, deadStateIndex) ==
    LET deadStateName == generateAlphabeticStateName(deadStateIndex)
    IN IF Includes(existingStateNames, deadStateName)
       THEN FreeStateName(existingStateNames, deadStateIndex + 1)
       ELSE deadStateName

\* Variant: the missing transitions without the dead state's self-loops
DeadStateTransitionsNoLoops(missingTransitions, deadStateName, alphabet) ==
    [i \in 1..Len(missingTransitions) |->
        [from |-> missingTransitions[i].from, to |-> deadStateName,
         symbol |-> missingTransitions[i].symbol]]

\* The transitions completion appends: the missing ones, then the dead state's loops
DeadStateTransitions(missingTransitions, deadStateName, alphabet) ==
    [i \in 1..Len(missingTransitions) |->
        [from |-> missingTransitions[i].from, to |-> deadStateName,
         symbol |-> missingTransitions[i].symbol]]
    \o [k \in 1..Len(alphabet) |->
        [from |-> deadStateName, to |-> deadStateName, symbol |-> alphabet[k]]]

makeCompleteDFA(dfa) ==
    IF isCompleteDFA(dfa) THEN dfa
    ELSE LET alphabet == NonEpsilonAlphabet(dfa)
             missingTransitions == MissingTransitions(dfa, alphabet)
             deadStateName == FreeStateName(dfa.states, 0)
         IN IF alphabet = <<>> THEN dfa
            ELSE IF missingTransitions = <<>> THEN dfa
            ELSE [states |-> Append(dfa.states, deadStateName),
                  transitions |-> dfa.transitions
                      \o DeadStateTransitions(missingTransitions, deadStateName, alphabet),
                  startState |-> dfa.startState,
                  finalStates |-> dfa.finalStates,
                  type |-> "DFA"]

(***************************************************************************)
(* AutomataEngine: minimization                                            *)
(***************************************************************************)
\* The for loop of getReachableStates over all transitions for one dequeued state
RECURSIVE ReachVisit(_, _, _, _)
ReachVisit(current, reachable, queue, ts) ==
    IF ts = <<>> THEN <<reachable, queue>>
    ELSE IF Head(ts).from = current /\ Head(ts).to \notin reachable
    THEN ReachVisit(current, reachable \cup {Head(ts).to},
                    Append(queue, Head(ts).to), Tail(ts))
    ELSE ReachVisit(current, reachable, queue, Tail(ts))

RECURSIVE ReachLoop(_, _, _)
ReachLoop(dfa, reachable, queue) ==
    IF queue = <<>> THEN reachable
    ELSE With(ReachVisit(Head(queue), reachable, Tail(queue), dfa.transitions),
              LAMBDA visited : ReachLoop(dfa, visited[1], visited[2]))

getReachableStates(dfa) ==
    IF Falsy(dfa.startState) THEN {}
    ELSE ReachLoop(dfa, {dfa.startState}, <<dfa.startState>>)

\* Variant: no pruning of unreachable states
ReachableDFAUnpruned(completeDFA) == completeDFA

\* Step 2 of minimizeDFAWithDetails: the completed DFA without unreachable parts
ReachableDFA(completeDFA) ==
    With(getReachableStates(completeDFA), LAMBDA reachableStates :
        LET IsReachable(s) == s \in reachableStates
            BothReachable(t) == t.from \in reachableStates /\ t.to \in reachableStates
        IN [states |-> SelectSeq(completeDFA.states, IsReachable),
            transitions |-> SelectSeq(completeDFA.transitions, BothReachable),
            startState |-> completeDFA.startState,
            finalStates |-> SelectSeq(completeDFA.finalStates, IsReachable),
            type |-> completeDFA.type])

\* The index of the first partition that includes the state, -1 when none
TargetPartitionIndex(dfa, allPartitions, state, symbol) ==
    With(FindTransition(dfa, state, symbol), LAMBDA transition :
        IF transition = NoValue THEN -1
        ELSE With({i \in 1..Len(allPartitions) :
                      Includes(allPartitions[i], transition.to)},
                  LAMBDA hits :
                      IF hits = {} THEN -1
                      ELSE (CHOOSE i \in hits : \A k \in hits : i <= k) - 1))

\* transitionGroups: a Map from target index to members, in insertion order
RECURSIVE GroupStates(_, _, _, _, _)
GroupStates(dfa, allPartitions, symbol, groups, rest) ==
    IF rest = <<>> THEN groups
    ELSE With(<<Head(rest), Tail(rest), groups>>, LAMBDA now :
         With(TargetPartitionIndex(dfa, allPartitions, now[1], symbol), LAMBDA index :
             LET state == now[1]
                 grown ==
                     IF \E g \in 1..Len(now[3]) : now[3][g].index = index
                     THEN [g \in 1..Len(now[3]) |->
                             IF now[3][g].index = index
                             THEN [now[3][g] EXCEPT !.members = Append(@, state)]
                             ELSE now[3][g]]
                     ELSE Append(now[3], [index |-> index, members |-> <<state>>])
             IN GroupStates(dfa, allPartitions, symbol, grown, now[2])))

\* Variant: a partition is never split
splitPartitionNever(dfa, partition, allPartitions, symbol) == <<partition>>

splitPartitionHopcroft(dfa, partition, allPartitions, symbol) ==
    IF Len(partition) <= 1 THEN <<partition>>
    ELSE With(GroupStates(dfa, allPartitions, symbol, <<>>, partition),
              LAMBDA groups : [g \in 1..Len(groups) |-> groups[g].members])

\* Variant: only the first sub-partition takes the partition's place
SpliceFirstOnly(partitions, i, subPartitions) ==
    SubSeq(partitions, 1, i - 1) \o <<subPartitions[1]>>
        \o SubSeq(partitions, i + 1, Len(partitions))

\* Variant: the sub-partitions are moved to the end of the list
SpliceAtEnd(partitions, i, subPartitions) ==
    SubSeq(partitions, 1, i - 1) \o SubSeq(partitions, i + 1, Len(partitions))
        \o subPartitions

\* partitions.splice(i, 1, ...subPartitions)
Splice(partitions, i, subPartitions) ==
    SubSeq(partitions, 1, i - 1) \o subPartitions
        \o SubSeq(partitions, i + 1, Len(partitions))

\* The symbols tried on one partition: splitDetails up to the first split, and
\* the sub-partitions of that split (NoValue when no symbol splits)
RECURSIVE TrySymbols(_, _, _, _, _)
TrySymbols(dfa, partition, partitions, symbols, splitDetails) ==
    IF symbols = <<>> THEN [splitDetails |-> splitDetails, subPartitions |-> NoValue]
    ELSE With(splitPartitionHopcroft(dfa, partition, partitions, Head(symbols)),
              LAMBDA subPartitions :
         With(Append(splitDetails,
                     [symbol |-> Head(symbols),
                      splitOccurred |-> Len(subPartitions) > 1,
                      splitResult |-> IF Len(subPartitions) > 1
                                      THEN subPartitions ELSE NoValue]),
              LAMBDA details :
                  IF Len(subPartitions) > 1
                  THEN [splitDetails |-> details, subPartitions |-> subPartitions]
                  ELSE TrySymbols(dfa, partition, partitions, Tail(symbols), details)))

\* One pass of the for-loop body on a partition of more than one member: the
\* symbols are tried, the step is recorded, and a split restarts the scan at the
\* first partition
ExaminePartition(dfa, alphabet, st, i) ==
    With(st.partitions[i], LAMBDA partition :
    With(TrySymbols(dfa, partition, st.partitions, alphabet, <<>>), LAMBDA tried :
        LET split == tried.subPartitions # NoValue
            after == IF split
                     THEN Splice(st.partitions, i, tried.subPartitions)
                     ELSE st.partitions
            step == [step |-> st.stepCounter,
                     description |->
                         IF split
                         THEN "Analyzing partition {" \o Join(partition, ", ")
                              \o "} with all symbols"
                         ELSE "Checked partition {" \o Join(partition, ", ")
                              \o "} with all symbols - no split needed",
                     partitionsBefore |-> st.partitions,
                     partitionsAfter |-> after,
                     splittingPartition |-> partition,
                     symbolsChecked |-> alphabet,
                     splitDetails |-> tried.splitDetails]
            next == [partitions |-> after,
                     partitioningSteps |-> Append(st.partitioningSteps, step),
                     stepCounter |-> st.stepCounter + 1]
        IN <<next, IF split THEN 1 ELSE i + 1>>))

\* The while (changed) loop with its for loop over partitions, at index i (1-based).
\* A split restarts the scan at the first partition; the loop ends when a scan
\* passes the last partition without a split.
RECURSIVE Refine(_, _, _, _)
Refine(dfa, alphabet, st, i) ==
    IF i > Len(st.partitions) THEN st
    ELSE IF Len(st.partitions[i]) <= 1 THEN Refine(dfa, alphabet, st, i + 1)
    ELSE With(ExaminePartition(dfa, alphabet, st, i), LAMBDA loop :
             Refine(dfa, alphabet, loop[1], loop[2]))

\* Variant: the step counter starts at 0, the number step 0 already carries
RefinementStartAtZero(initial) ==
    [partitions |-> initial,
     partitioningSteps |->
         <<[step |-> 0,
            description |-> "Initial partition: separate final and non-final states",
            partitionsBefore |-> <<>>,
            partitionsAfter |-> initial,
            symbolsChecked |-> <<>>,
            splitDetails |-> <<>>]>>,
     stepCounter |-> 0]

\* The partitions, the trace and the step counter when the loop is entered
RefinementStart(initial) ==
    [partitions |-> initial,
     partitioningSteps |->
         <<[step |-> 0,
            description |-> "Initial partition: separate final and non-final states",
            partitionsBefore |-> <<>>,
            partitionsAfter |-> initial,
            symbolsChecked |-> <<>>,
            splitDetails |-> <<>>]>>,
     stepCounter |-> 1]

\* Variant: the first block is not filtered, it lists the final states too
InitialPartitionsUnfiltered(reachableDFA) ==
    (IF Len(reachableDFA.states) > 0 THEN <<reachableDFA.states>> ELSE <<>>)
    \o (IF Len(reachableDFA.finalStates) > 0
        THEN <<reachableDFA.finalStates>> ELSE <<>>)

\* Initial partition: non-final states first, then the final states as listed
InitialPartitions(reachableDFA) ==
    LET NotFinal(s) == ~Includes(reachableDFA.finalStates, s)
    IN With(SelectSeq(reachableDFA.states, NotFinal), LAMBDA nonFinalStates :
           (IF Len(nonFinalStates) > 0 THEN <<nonFinalStates>> ELSE <<>>)
           \o (IF Len(reachableDFA.finalStates) > 0
               THEN <<reachableDFA.finalStates>> ELSE <<>>))

\* stateMapping.get(state): the name of the last partition that lists the state
StateMappingGet(partitions, state) ==
    With({i \in 1..Len(partitions) : Includes(partitions[i], state)}, LAMBDA hits :
        IF hits = {} THEN Null
        ELSE generateAlphabeticStateName((CHOOSE i \in hits : \A k \in hits : k <= i) - 1))

\* Every transition of the pruned DFA with its ends mapped to minimized states
MappedTransitions(reachableDFA, partitions) ==
    [i \in 1..Len(reachableDFA.transitions) |->
        [from |-> StateMappingGet(partitions, reachableDFA.transitions[i].from),
         to |-> StateMappingGet(partitions, reachableDFA.transitions[i].to),
         symbol |-> reachableDFA.transitions[i].symbol]]

\* The Set key `${fromState}-${toState}-${transition.symbol}`
MinTransitionKey(t) == t.from \o "-" \o t.to \o "-" \o t.symbol

\* Variant: every mapped transition is kept, repeated triples too
MinTransitionsRepeated(mapped) == mapped

\* minTransitions: the first mapped transition of every key, in order
MinTransitions(mapped) ==
    LET First(i) == \A j \in 1..(i - 1) :
                        MinTransitionKey(mapped[j]) # MinTransitionKey(mapped[i])
        RECURSIVE Pick(_)
        Pick(i) == IF i > Len(mapped) THEN <<>>
                   ELSE IF First(i) THEN <<mapped[i]>> \o Pick(i + 1)
                   ELSE Pick(i + 1)
    IN Pick(1)

\* combinedTransitions[minState][symbol]: the target of the first pruned transition
\* that maps to that pair, and all pruned transitions that map to it, in order
CombinedTransitions(reachableDFA, mapped, minStates) ==
    LET Indexes(m, s) == {i \in 1..Len(mapped) :
                             mapped[i].from = m /\ mapped[i].symbol = s}
        RECURSIVE Originals(_, _, _)
        Originals(m, s, i) ==
            IF i > Len(mapped) THEN <<>>
            ELSE IF i \in Indexes(m, s)
            THEN <<reachableDFA.transitions[i]>> \o Originals(m, s, i + 1)
            ELSE Originals(m, s, i + 1)
    IN [m \in Range(minStates) |->
          [s \in {mapped[i].symbol : i \in {j \in 1..Len(mapped) : mapped[j].from = m}} |->
              [to |-> mapped[CHOOSE i \in Indexes(m, s) :
                                 \A k \in Indexes(m, s) : i <= k].to,
               originalTransitions |-> Originals(m, s, 1)]]]

\* Variant: the states of the input are reported as one block
DegenerateResultOneBlock(dfa) ==
    [originalDFA |-> dfa,
     minimizedDFA |-> dfa,
     stateMapping |-> <<>>,
     partitions |-> <<dfa.states>>,
     equivalentStates |-> <<>>,
     combinedTransitions |-> <<>>,
     algorithm |-> "Hopcroft",
     partitioningSteps |-> <<>>]

\* What minimizeDFAWithDetails returns for an automaton whose type is not DFA
DegenerateResult(dfa) ==
    [originalDFA |-> dfa,
     minimizedDFA |-> dfa,
     stateMapping |-> <<>>,
     partitions |-> <<>>,
     equivalentStates |-> <<>>,
     combinedTransitions |-> <<>>,
     algorithm |-> "Hopcroft",
     partitioningSteps |-> <<>>]

\* Variant: the result carries the completed automaton as its original
OriginalDFACompleted(dfa, completeDFA) == completeDFA

\* The automaton the result carries as originalDFA: the parameter, of which
\* makeCompleteDFA and the pruning only ever copy the lists
OriginalDFA(dfa, completeDFA) == dfa

minimizeDFAWithDetails(dfa) ==
    IF dfa.type # "DFA"
    THEN DegenerateResult(dfa)
    ELSE With(makeCompleteDFA(dfa), LAMBDA completeDFA :
         With(ReachableDFA(completeDFA), LAMBDA reachableDFA :
         With(Distinct([i \in 1..Len(reachableDFA.transitions) |->
                           reachableDFA.transitions[i].symbol]), LAMBDA alphabet :
         With(InitialPartitions(reachableDFA), LAMBDA initial :
         With(Refine(reachableDFA, alphabet, RefinementStart(initial), 1),
              LAMBDA refined :
         With(refined.partitions, LAMBDA partitions :
         With([i \in 1..Len(partitions) |-> generateAlphabeticStateName(i - 1)],
              LAMBDA minStates :
         With(MappedTransitions(reachableDFA, partitions), LAMBDA mapped :
             [originalDFA |-> OriginalDFA(dfa, completeDFA),
              minimizedDFA |->
                  [states |-> minStates,
                   transitions |-> MinTransitions(mapped),
                   startState |-> StateMappingGet(partitions, reachableDFA.startState),
                   finalStates |->
                       Distinct([i \in 1..Len(reachableDFA.finalStates) |->
                           StateMappingGet(partitions, reachableDFA.finalStates[i])]),
                   type |-> "DFA"],
              stateMapping |->
                  [s \in UNION {Range(partitions[i]) : i \in 1..Len(partitions)} |->
                      StateMappingGet(partitions, s)],
              partitions |-> partitions,
              equivalentStates |->
                  [i \in 1..Len(partitions) |->
                      [minimizedState |-> minStates[i], states |-> partitions[i]]],
              combinedTransitions |->
                  CombinedTransitions(reachableDFA, mapped, minStates),
              algorithm |-> "Hopcroft",
              partitioningSteps |-> refined.partitioningSteps]))))))))

(***************************************************************************)
(* Engine calls: the inputs                                                *)
(***************************************************************************)
MaxIndex == 702
MaxTransitions == 3
MaxDFATransitions == 3
MaxWordLength == 3

SeqsUpTo(S, n) == UNION {[1..k -> S] : k \in 0..n}

\* Automata over the listed states: every transition sequence up to the bound,
\* with or without a start state, with the given lists of final states
Automata(states, symbols, maxTransitions, finals, type) ==
    {[states |-> states, transitions |-> ts, startState |-> start,
      finalStates |-> final, type |-> type] :
        ts \in SeqsUpTo([from : Range(states), to : Range(states), symbol : symbols],
                        maxTransitions),
        start \in Range(states) \cup {Null},
        final \in finals}

\* The automata whose type field is what the classifier computes
Classified(automata) == {a \in automata : determineAutomatonType(a) = a.type}

NFASymbols == {"a", "b", "e"}
\* The inputs are operators of their bound: each is built only where it is used
NFAInputs(maxTransitions) ==
    Classified(Automata(<<"A", "B">>, NFASymbols, maxTransitions,
                        {<<>>, <<"A">>, <<"B">>, <<"B", "A">>}, "NFA"))

\* Two states over two symbols, and three states over one symbol
DFAInputs(maxTransitions) ==
    Classified(Automata(<<"A", "B">>, {"0", "1"}, maxTransitions,
                        {<<>>, <<"A">>, <<"B">>, <<"A", "B">>, <<"B", "B">>}, "DFA"))
    \cup Classified(Automata(<<"A", "B", "C">>, {"0"}, maxTransitions,
                        {<<>>, <<"A">>, <<"C">>, <<"B", "C">>, <<"C", "A", "C">>,
                         <<"A", "B", "C">>}, "DFA"))

CompleteDFAInputs(maxTransitions) ==
    {a \in DFAInputs(maxTransitions) : isCompleteDFA(a)}

\* Transition lists over identifiers with and without '-', every epsilon marker,
\* a one-character symbol and a two-character symbol
ClassifierInputs(maxTransitions) ==
    {[states |-> <<"A", "A-", "B", "C">>, transitions |-> ts, startState |-> Null,
      finalStates |-> <<>>, type |-> "DFA"] :
        ts \in SeqsUpTo([from : {"A", "A-"}, to : {"B", "C"},
                         symbol : {"0", "-0", "ε", "e", "E", ""}], maxTransitions)}

\* Transition lists over identifiers with and without '-' and one-character
\* symbols, '-' and an epsilon marker among them
AnalyzerInputs(maxTransitions) ==
    {[states |-> <<"A", "A-", "B", "C">>, transitions |-> ts, startState |-> Null,
      finalStates |-> <<>>, type |-> "NFA"] :
        ts \in SeqsUpTo([from : {"A", "A-"}, to : {"B", "C"},
                         symbol : {"0", "-", "ε"}], maxTransitions)}

\* Automata of either type field, whatever their transitions: with and without
\* an epsilon marker, a branching pair, a missing transition
CompletenessInputs(maxTransitions) ==
    {[states |-> <<"A", "B">>, transitions |-> ts, startState |-> "A",
      finalStates |-> <<>>, type |-> type] :
        ts \in SeqsUpTo([from : {"A", "B"}, to : {"A", "B"},
                         symbol : {"0", "1", "ε"}], maxTransitions),
        type \in {"DFA", "NFA"}}

\* NFAs whose identifiers include one with a ',' and the empty one
IdentifierNFAInputs(maxTransitions) ==
    Classified(
        {[states |-> <<"a", "b", "a,b">>, transitions |-> ts, startState |-> "a",
          finalStates |-> final, type |-> "NFA"] :
            ts \in SeqsUpTo([from : {"a", "b"}, to : {"a", "b", "a,b"},
                             symbol : {"0", "1"}], maxTransitions),
            final \in {<<>>, <<"b">>, <<"a,b">>}}
        \cup
        {[states |-> <<"a", "">>, transitions |-> ts, startState |-> "a",
          finalStates |-> final, type |-> "NFA"] :
            ts \in SeqsUpTo([from : {"a", ""}, to : {"a", ""},
                             symbol : {"0", "1"}], maxTransitions),
            final \in {<<>>, <<"">>, <<"a">>}})

\* Automata for epsilonClosure: two states with every epsilon marker, three
\* states with one marker, so that epsilon cycles and self-loops occur
ClosureInputs(maxTransitions) ==
    {[states |-> <<"A", "B">>, transitions |-> ts, startState |-> "A",
      finalStates |-> <<>>, type |-> "NFA"] :
        ts \in SeqsUpTo([from : {"A", "B"}, to : {"A", "B"},
                         symbol : {"ε", "E", "", "a"}], maxTransitions)}
    \cup
    {[states |-> <<"A", "B", "C">>, transitions |-> ts, startState |-> "A",
      finalStates |-> <<>>, type |-> "NFA"] :
        ts \in SeqsUpTo([from : {"A", "B", "C"}, to : {"A", "B", "C"},
                         symbol : {"e"}], maxTransitions)}

\* The seed sets epsilonClosure is called with: none, one or two of the states
SeedSets(a) == {{}, {a.states[1]}, {a.states[2]}, {a.states[1], a.states[2]}}

\* Two-state automata whose transitions are deterministic and epsilon-free,
\* repeated triples allowed, with and without a start state
DeterministicInputs(maxTransitions) ==
    Classified(
        {[states |-> <<"A", "B">>, transitions |-> ts, startState |-> start,
          finalStates |-> final, type |-> "DFA"] :
            ts \in SeqsUpTo([from : {"A", "B"}, to : {"A", "B"},
                             symbol : {"0", "1"}], maxTransitions),
            start \in {"A", Null},
            final \in {<<>>, <<"A">>, <<"B">>}})

\* The characters of the input strings
Words(symbols, maxLength) == SeqsUpTo(symbols, maxLength)

EngineIdle ==
    /\ automaton = NoAutomaton
    /\ minimizationResult = NoResult
    /\ showOriginalDFA = FALSE
    /\ operations = 0

hookVars == <<automaton, minimizationResult, showOriginalDFA>>

(***************************************************************************)
(* generateAlphabeticStateName, called on an index                         *)
(***************************************************************************)
InitName ==
    /\ EngineIdle
    /\ input \in 0..MaxIndex
    /\ output = NoValue
    /\ pc = "start"

CallGenerateName ==
    /\ pc = "start"
    /\ output' = generateAlphabeticStateName(input)
    /\ pc' = "named"
    /\ UNCHANGED <<input, hookVars, operations>>

SpecName == InitName /\ [][CallGenerateName]_vars

(***************************************************************************)
(* determineAutomatonType, called on a transition list                     *)
(***************************************************************************)
InitClassify ==
    /\ EngineIdle
    /\ input \in ClassifierInputs(MaxTransitions)
    /\ output = NoValue
    /\ pc = "start"

CallDetermineAutomatonType ==
    /\ pc = "start"
    /\ output' = determineAutomatonType(input)
    /\ pc' = "classified"
    /\ UNCHANGED <<input, hookVars, operations>>

SpecClassify == InitClassify /\ [][CallDetermineAutomatonType]_vars

(***************************************************************************)
(* analyzeAutomaton                                                        *)
(***************************************************************************)
InitAnalyze ==
    /\ EngineIdle
    /\ input \in AnalyzerInputs(MaxTransitions)
    /\ output = NoValue
    /\ pc = "start"

CallAnalyzeAutomaton ==
    /\ pc = "start"
    /\ output' = [analysis |-> analyzeAutomaton(input)]
    /\ pc' = "analyzed"
    /\ UNCHANGED <<input, hookVars, operations>>

SpecAnalyze == InitAnalyze /\ [][CallAnalyzeAutomaton]_vars

(***************************************************************************)
(* isCompleteDFA                                                           *)
(***************************************************************************)
InitIsComplete ==
    /\ EngineIdle
    /\ input \in CompletenessInputs(MaxTransitions)
    /\ output = NoValue
    /\ pc = "start"

CallIsCompleteDFA ==
    /\ pc = "start"
    /\ output' = [complete |-> isCompleteDFA(input)]
    /\ pc' = "answered"
    /\ UNCHANGED <<input, hookVars, operations>>

SpecIsComplete == InitIsComplete /\ [][CallIsCompleteDFA]_vars

(***************************************************************************)
(* epsilonClosure                                                          *)
(***************************************************************************)
InitClosure ==
    /\ EngineIdle
    /\ input \in ClosureInputs(MaxTransitions)
    /\ output = NoValue
    /\ pc = "start"

CallEpsilonClosure ==
    /\ pc = "start"
    /\ \E states \in SeedSets(input) :
          output' = [states |-> states, closure |-> epsilonClosure(input, states)]
    /\ pc' = "closed"
    /\ UNCHANGED <<input, hookVars, operations>>

SpecClosure == InitClosure /\ [][CallEpsilonClosure]_vars

(***************************************************************************)
(* testString on one automaton under either value of its type field       *)
(***************************************************************************)
InitTestTypes ==
    /\ EngineIdle
    /\ input \in DeterministicInputs(MaxDFATransitions)
    /\ output = NoValue
    /\ pc = "start"

CallTestStringBothTypes ==
    /\ pc = "start"
    /\ \E word \in Words({"0", "1", "e"}, MaxWordLength) :
          output' = [word |-> word,
                     asDFA |-> testString([input EXCEPT !.type = "DFA"], word),
                     asNFA |-> testString([input EXCEPT !.type = "NFA"], word)]
    /\ pc' = "tested"
    /\ UNCHANGED <<input, hookVars, operations>>

SpecTestTypes == InitTestTypes /\ [][CallTestStringBothTypes]_vars

(***************************************************************************)
(* convertNFAToDFA, then testString on the NFA and on the DFA              *)
(***************************************************************************)
InitConvert ==
    /\ EngineIdle
    /\ input \in NFAInputs(MaxTransitions)
    /\ output = NoValue
    /\ pc = "start"

CallConvertNFAToDFA ==
    /\ pc = "start"
    /\ output' = [dfa |-> convertNFAToDFA(input)]
    /\ pc' = "converted"
    /\ UNCHANGED <<input, hookVars, operations>>

CallTestStringOnBoth ==
    /\ pc = "converted"
    /\ \E word \in Words(NFASymbols, MaxWordLength) :
          output' = [word |-> word,
                     nfa |-> testString(input, word),
                     dfa |-> testString(output.dfa, word)]
    /\ pc' = "tested"
    /\ UNCHANGED <<input, hookVars, operations>>

SpecConvert == InitConvert /\ [][CallConvertNFAToDFA]_vars

NextAccept == CallConvertNFAToDFA \/ CallTestStringOnBoth

SpecAccept == InitConvert /\ [][NextAccept]_vars

(***************************************************************************)
(* convertNFAToDFA on NFAs with ',' in an identifier or an empty one       *)
(***************************************************************************)
InitConvertIdentifiers ==
    /\ EngineIdle
    /\ input \in IdentifierNFAInputs(MaxTransitions)
    /\ output = NoValue
    /\ pc = "start"

SpecConvertIdentifiers == InitConvertIdentifiers /\ [][CallConvertNFAToDFA]_vars

(***************************************************************************)
(* convertNFAToDFA on a three-state NFA with one epsilon transition, then  *)
(* testString on both                                                      *)
(***************************************************************************)
\* A moves to B without input, B reads a to C
ChainNFA(epsilon, startState, finalStates) ==
    [states |-> <<"A", "B", "C">>,
     transitions |-> <<[from |-> "A", to |-> "B", symbol |-> epsilon],
                       [from |-> "B", to |-> "C", symbol |-> "a"]>>,
     startState |-> startState,
     finalStates |-> finalStates,
     type |-> "NFA"]

ChainNFAInputs ==
    {ChainNFA(epsilon, startState, finalStates) :
        epsilon \in {"ε", "e", "E", ""},
        startState \in {"A", "B", "C"},
        finalStates \in {<<>>, <<"C">>, <<"A">>, <<"C", "B">>, <<"A", "B", "C">>}}

InitConvertChain ==
    /\ EngineIdle
    /\ input \in ChainNFAInputs
    /\ output = NoValue
    /\ pc = "start"

SpecConvertChain == InitConvertChain /\ [][NextAccept]_vars

(***************************************************************************)
(* makeCompleteDFA, called once and then on its own result                 *)
(***************************************************************************)
InitComplete ==
    /\ EngineIdle
    /\ input \in DFAInputs(MaxDFATransitions)
    /\ output = NoValue
    /\ pc = "start"

CallMakeCompleteDFA ==
    /\ pc = "start"
    /\ output' = [complete |-> makeCompleteDFA(input)]
    /\ pc' = "completed"
    /\ UNCHANGED <<input, hookVars, operations>>

CallMakeCompleteDFAAgain ==
    /\ pc = "completed"
    /\ output' = [complete |-> output.complete,
                  again |-> makeCompleteDFA(output.complete)]
    /\ pc' = "completedAgain"
    /\ UNCHANGED <<input, hookVars, operations>>

NextComplete == CallMakeCompleteDFA \/ CallMakeCompleteDFAAgain

SpecComplete == InitComplete /\ [][NextComplete]_vars

(***************************************************************************)
(* minimizeDFAWithDetails, called once and then on its minimized DFA       *)
(***************************************************************************)
InitMinimize ==
    /\ EngineIdle
    /\ input \in DFAInputs(MaxDFATransitions)
    /\ output = NoValue
    /\ pc = "start"

CallMinimizeDFAWithDetails ==
    /\ pc = "start"
    /\ output' = [result |-> minimizeDFAWithDetails(input)]
    /\ pc' = "minimized"
    /\ UNCHANGED <<input, hookVars, operations>>

CallMinimizeAgain ==
    /\ pc = "minimized"
    /\ output' = [result |-> output.result,
                  again |-> minimizeDFAWithDetails(output.result.minimizedDFA)]
    /\ pc' = "minimizedAgain"
    /\ UNCHANGED <<input, hookVars, operations>>

NextMinimize == CallMinimizeDFAWithDetails \/ CallMinimizeAgain

SpecMinimize == InitMinimize /\ [][NextMinimize]_vars

(***************************************************************************)
(* minimizeDFAWithDetails on automata whose type is NFA                    *)
(***************************************************************************)
\* Automata classified NFA, and DFA-classified ones whose type field says NFA
NonDFAInputs(maxTransitions, maxDFATransitions) ==
    NFAInputs(maxTransitions)
    \cup {[a EXCEPT !.type = "NFA"] : a \in DFAInputs(maxDFATransitions)}

InitMinimizeNonDFA ==
    /\ EngineIdle
    /\ input \in NonDFAInputs(MaxTransitions, MaxDFATransitions)
    /\ output = NoValue
    /\ pc = "start"

SpecMinimizeNonDFA == InitMinimizeNonDFA /\ [][CallMinimizeDFAWithDetails]_vars

(***************************************************************************)
(* minimizeDFAWithDetails on a complete DFA, then testString on both       *)
(***************************************************************************)
InitMinimizeComplete ==
    /\ EngineIdle
    /\ input \in CompleteDFAInputs(MaxDFATransitions)
    /\ output = NoValue
    /\ pc = "start"

CallTestStringOnMinimized ==
    /\ pc = "minimized"
    /\ \E word \in Words({"0", "1"}, MaxWordLength) :
          output' = [result |-> output.result,
                     word |-> word,
                     original |-> testString(input, word),
                     minimized |-> testString(output.result.minimizedDFA, word)]
    /\ pc' = "tested"
    /\ UNCHANGED <<input, hookVars, operations>>

NextMinimizeTest == CallMinimizeDFAWithDetails \/ CallTestStringOnMinimized

SpecMinimizeTest == InitMinimizeComplete /\ [][NextMinimizeTest]_vars

(***************************************************************************)
(* minimizeDFAWithDetails on a complete three-state DFA over {0,1}, then   *)
(* testString on both                                                      *)
(***************************************************************************)
\* A reads 0 to B and 1 to A, B reads 0 to C and 1 to A, C reads 0 to C and 1 to A
CounterDFA(startState, finalStates) ==
    [states |-> <<"A", "B", "C">>,
     transitions |-> <<[from |-> "A", to |-> "B", symbol |-> "0"],
                       [from |-> "A", to |-> "A", symbol |-> "1"],
                       [from |-> "B", to |-> "C", symbol |-> "0"],
                       [from |-> "B", to |-> "A", symbol |-> "1"],
                       [from |-> "C", to |-> "C", symbol |-> "0"],
                       [from |-> "C", to |-> "A", symbol |-> "1"]>>,
     startState |-> startState,
     finalStates |-> finalStates,
     type |-> "DFA"]

CounterDFAInputs ==
    {CounterDFA(startState, finalStates) :
        startState \in {"A", "B", "C"},
        finalStates \in {<<>>, <<"C">>, <<"A">>, <<"B", "C">>, <<"A", "B", "C">>}}

InitMinimizeCounter ==
    /\ EngineIdle
    /\ input \in CounterDFAInputs
    /\ output = NoValue
    /\ pc = "start"

SpecMinimizeCounter == InitMinimizeCounter /\ [][NextMinimizeTest]_vars

(***************************************************************************)
(* The refinement loop of minimizeDFAWithDetails, one partition at a time  *)
(***************************************************************************)
InitRefine ==
    /\ EngineIdle
    /\ input \in DFAInputs(MaxDFATransitions)
    /\ output = NoValue
    /\ pc = "start"

\* Completion, pruning and the initial partition, up to the loop's entry
EnterRefinement ==
    /\ pc = "start"
    /\ output' =
           With(ReachableDFA(makeCompleteDFA(input)), LAMBDA reachableDFA :
               [dfa |-> reachableDFA,
                alphabet |-> Distinct([i \in 1..Len(reachableDFA.transitions) |->
                                          reachableDFA.transitions[i].symbol]),
                st |-> RefinementStart(InitialPartitions(reachableDFA)),
                i |-> 1])
    /\ pc' = "refining"
    /\ UNCHANGED <<input, hookVars, operations>>

\* if (partition.length <= 1) continue
SkipPartition ==
    /\ pc = "refining"
    /\ output.i <= Len(output.st.partitions)
    /\ Len(output.st.partitions[output.i]) <= 1
    /\ output' = [output EXCEPT !.i = @ + 1]
    /\ UNCHANGED <<input, pc, hookVars, operations>>

\* The loop body on a partition of more than one member
ExamineStep ==
    /\ pc = "refining"
    /\ output.i <= Len(output.st.partitions)
    /\ Len(output.st.partitions[output.i]) > 1
    /\ output' =
           With(ExaminePartition(output.dfa, output.alphabet, output.st, output.i),
                LAMBDA loop : [output EXCEPT !.st = loop[1], !.i = loop[2]])
    /\ UNCHANGED <<input, pc, hookVars, operations>>

\* A scan has passed the last partition without a split: the loop is left
LeaveRefinement ==
    /\ pc = "refining"
    /\ output.i > Len(output.st.partitions)
    /\ pc' = "refined"
    /\ UNCHANGED <<input, output, hookVars, operations>>

NextRefine == EnterRefinement \/ SkipPartition \/ ExamineStep \/ LeaveRefinement

\* The loop runs synchronously to its end: no step of it is postponed for ever
SpecRefine == InitRefine /\ [][NextRefine]_vars /\ WF_vars(NextRefine)

(***************************************************************************)
(* useAutomata: the hook's state and its callbacks                         *)
(***************************************************************************)
\* The runs of the hook that are explored: at most this many callbacks
MaxOperations == 6

\* What the editing surface may pass: "C" is no state until a conversion or a
\* completion names one so
HookIds == {"A", "B", "C"}
HookNewIds == {"A", "B"}
HookSymbols == {"a", "e"}
HookFinalLists == {<<>>, <<"A">>, <<"B", "A">>, <<"A", "A">>, <<"C">>}

\* One more callback runs
Counted == operations < MaxOperations /\ operations' = operations + 1

engineVars == <<input, output, pc>>

Init ==
    /\ automaton = NoAutomaton
    /\ minimizationResult = NoResult
    /\ showOriginalDFA = FALSE
    /\ operations = 0
    /\ input = NoValue
    /\ output = NoValue
    /\ pc = "hook"

addState(state) ==
    /\ automaton' =
          IF automaton = NoAutomaton
          THEN [states |-> <<state>>, transitions |-> <<>>, startState |-> Null,
                finalStates |-> <<>>, type |-> "DFA"]
          ELSE IF Includes(automaton.states, state) THEN automaton
          ELSE [automaton EXCEPT !.states = Append(@, state)]
    /\ UNCHANGED <<minimizationResult, showOriginalDFA, engineVars>>

\* Variant: the transitions of the removed state are kept
removeStateKeepingTransitions(stateId) ==
    /\ automaton' =
          IF automaton = NoAutomaton THEN NoAutomaton
          ELSE LET Other(s) == s # stateId
               IN [automaton EXCEPT
                     !.states = SelectSeq(@, Other),
                     !.startState = IF @ = stateId THEN Null ELSE @,
                     !.finalStates = SelectSeq(@, Other)]
    /\ UNCHANGED <<minimizationResult, showOriginalDFA, engineVars>>

removeState(stateId) ==
    /\ automaton' =
          IF automaton = NoAutomaton THEN NoAutomaton
          ELSE LET Other(s) == s # stateId
                   Apart(t) == t.from # stateId /\ t.to # stateId
               IN [automaton EXCEPT
                     !.states = SelectSeq(@, Other),
                     !.transitions = SelectSeq(@, Apart),
                     !.startState = IF @ = stateId THEN Null ELSE @,
                     !.finalStates = SelectSeq(@, Other)]
    /\ UNCHANGED <<minimizationResult, showOriginalDFA, engineVars>>

\* Variant: the transition is appended and the type left as it was
addTransitionKeepingType(transition) ==
    /\ automaton' =
          IF automaton = NoAutomaton THEN NoAutomaton
          ELSE IF ~Includes(automaton.states, transition.from)
                  \/ ~Includes(automaton.states, transition.to)
          THEN automaton
          ELSE IF Includes(automaton.transitions, transition) THEN automaton
          ELSE [automaton EXCEPT !.transitions = Append(@, transition)]
    /\ UNCHANGED <<minimizationResult, showOriginalDFA, engineVars>>

addTransition(transition) ==
    /\ automaton' =
          IF automaton = NoAutomaton THEN NoAutomaton
          ELSE IF ~Includes(automaton.states, transition.from)
                  \/ ~Includes(automaton.states, transition.to)
          THEN automaton
          ELSE IF Includes(automaton.transitions, transition) THEN automaton
          ELSE LET updatedAutomaton ==
                       [automaton EXCEPT !.transitions = Append(@, transition)]
               IN [updatedAutomaton EXCEPT
                     !.type = determineAutomatonType(updatedAutomaton)]
    /\ UNCHANGED <<minimizationResult, showOriginalDFA, engineVars>>

removeTransition(from, to, symbol) ==
    /\ automaton' =
          IF automaton = NoAutomaton THEN NoAutomaton
          ELSE LET Other(t) == ~(t.from = from /\ t.to = to /\ t.symbol = symbol)
                   updatedAutomaton ==
                       [automaton EXCEPT !.transitions = SelectSeq(@, Other)]
               IN [updatedAutomaton EXCEPT
                     !.type = determineAutomatonType(updatedAutomaton)]
    /\ UNCHANGED <<minimizationResult, showOriginalDFA, engineVars>>

setStartState(stateId) ==
    /\ automaton' =
          IF automaton = NoAutomaton THEN automaton
          ELSE IF ~Includes(automaton.states, stateId) THEN automaton
          ELSE [automaton EXCEPT !.startState = stateId]
    /\ UNCHANGED <<minimizationResult, showOriginalDFA, engineVars>>

setFinalStates(stateIds) ==
    /\ automaton' =
          IF automaton = NoAutomaton THEN NoAutomaton
          ELSE LET Exists(id) == Includes(automaton.states, id)
               IN [automaton EXCEPT !.finalStates = SelectSeq(stateIds, Exists)]
    /\ UNCHANGED <<minimizationResult, showOriginalDFA, engineVars>>

\* The hook's convertNFAToDFA callback
hookConvertNFAToDFA ==
    /\ IF automaton = NoAutomaton THEN UNCHANGED hookVars
       ELSE IF automaton.type = "DFA" THEN UNCHANGED hookVars
       ELSE /\ automaton' = convertNFAToDFA(automaton)
            /\ minimizationResult' = NoResult
            /\ showOriginalDFA' = FALSE
    /\ UNCHANGED engineVars

\* The hook's minimizeDFA callback
hookMinimizeDFA ==
    /\ IF automaton = NoAutomaton THEN UNCHANGED hookVars
       ELSE IF automaton.type # "DFA" THEN UNCHANGED hookVars
       ELSE IF ~isCompleteDFA(automaton) THEN UNCHANGED hookVars
       ELSE LET result == minimizeDFAWithDetails(automaton)
            IN /\ minimizationResult' = result
               /\ automaton' = result.minimizedDFA
               /\ showOriginalDFA' = FALSE
    /\ UNCHANGED engineVars

toggleDFAView ==
    /\ IF minimizationResult = NoResult THEN UNCHANGED hookVars
       ELSE LET newShowOriginal == ~showOriginalDFA
            IN /\ automaton' = IF newShowOriginal
                               THEN minimizationResult.originalDFA
                               ELSE minimizationResult.minimizedDFA
               /\ showOriginalDFA' = newShowOriginal
               /\ UNCHANGED minimizationResult
    /\ UNCHANGED engineVars

clearAutomaton ==
    /\ automaton' = NoAutomaton
    /\ minimizationResult' = NoResult
    /\ showOriginalDFA' = FALSE
    /\ UNCHANGED engineVars

\* The hook's testString callback: it reads the automaton and changes nothing
hookTestString(word) ==
    /\ output' = [word |-> word,
                  result |-> IF automaton = NoAutomaton THEN [accepted |-> FALSE]
                             ELSE testString(automaton, word)]
    /\ pc' = "tested"
    /\ UNCHANGED <<hookVars, input, operations>>

forceTypeReevaluation ==
    /\ automaton' =
          IF automaton = NoAutomaton THEN NoAutomaton
          ELSE LET correctType == determineAutomatonType(automaton)
               IN IF automaton.type # correctType
                  THEN [automaton EXCEPT !.type = correctType]
                  ELSE automaton
    /\ UNCHANGED <<minimizationResult, showOriginalDFA, engineVars>>

\* The function the hook returns under the name setAutomaton
setAutomatonFromExternal(newAutomaton) ==
    /\ automaton' = newAutomaton
    /\ minimizationResult' = NoResult
    /\ showOriginalDFA' = FALSE
    /\ UNCHANGED engineVars

\* What may be loaded: nothing, or a complete DFA whose two states are equivalent
HookLoads ==
    {NoAutomaton,
     [states |-> <<"A", "B">>,
      transitions |-> <<[from |-> "A", to |-> "B", symbol |-> "a"],
                        [from |-> "B", to |-> "A", symbol |-> "a"]>>,
      startState |-> "A", finalStates |-> <<"A", "B">>, type |-> "DFA"]}

AddState == Counted /\ \E state \in HookNewIds : addState(state)

RemoveState == Counted /\ \E stateId \in HookIds : removeState(stateId)

AddTransition ==
    Counted /\ \E from \in HookIds, to \in HookIds, symbol \in HookSymbols :
        addTransition([from |-> from, to |-> to, symbol |-> symbol])

RemoveTransition ==
    Counted /\ \E from \in HookIds, to \in HookIds, symbol \in HookSymbols :
        removeTransition(from, to, symbol)

SetStartState == Counted /\ \E stateId \in HookIds : setStartState(stateId)

SetFinalStates == Counted /\ \E stateIds \in HookFinalLists : setFinalStates(stateIds)

ConvertNFAToDFA == Counted /\ hookConvertNFAToDFA

MinimizeDFA == Counted /\ hookMinimizeDFA

ToggleDFAView == Counted /\ toggleDFAView

ClearAutomaton == Counted /\ clearAutomaton

ForceTypeReevaluation == Counted /\ forceTypeReevaluation

SetAutomatonFromExternal ==
    Counted /\ \E newAutomaton \in HookLoads : setAutomatonFromExternal(newAutomaton)

\* The editing operations alone
NextEdit ==
    \/ AddState
    \/ RemoveState
    \/ AddTransition
    \/ RemoveTransition
    \/ SetStartState
    \/ SetFinalStates

SpecEdit == Init /\ [][NextEdit]_vars

TestString ==
    pc = "hook" /\ \E word \in Words(HookSymbols, MaxWordLength) : hookTestString(word)

\* The editing operations, and at any point the test of one input string
NextTest ==
    \/ pc = "hook" /\ AddState
    \/ pc = "hook" /\ RemoveState
    \/ pc = "hook" /\ AddTransition
    \/ pc = "hook" /\ RemoveTransition
    \/ pc = "hook" /\ SetStartState
    \/ pc = "hook" /\ SetFinalStates
    \/ TestString

SpecTest == Init /\ [][NextTest]_vars

\* The hook's own ten operations: nothing is loaded from outside
NextCallbacks ==
    \/ AddState
    \/ RemoveState
    \/ AddTransition
    \/ RemoveTransition
    \/ SetStartState
    \/ SetFinalStates
    \/ ConvertNFAToDFA
    \/ MinimizeDFA
    \/ ToggleDFAView
    \/ ClearAutomaton

SpecCallbacks == Init /\ [][NextCallbacks]_vars

Next ==
    \/ AddState
    \/ RemoveState
    \/ AddTransition
    \/ RemoveTransition
    \/ SetStartState
    \/ SetFinalStates
    \/ ConvertNFAToDFA
    \/ MinimizeDFA
    \/ ToggleDFAView
    \/ ClearAutomaton
    \/ ForceTypeReevaluation
    \/ SetAutomatonFromExternal

Spec == Init /\ [][Next]_vars

(***************************************************************************)
(* Properties: what the statements below are phrased in                    *)
(***************************************************************************)
EpsilonMarkers == {"ε", "e", "E", ""}

\* The distinct destinations of one (from, symbol) pair
PairDestinations(ts, from, symbol) ==
    {ts[i].to : i \in {j \in 1..Len(ts) : ts[j].from = from /\ ts[j].symbol = symbol}}

UsesEpsilon(ts) == \E i \in 1..Len(ts) : ts[i].symbol \in EpsilonMarkers

Branches(ts) ==
    \E i \in 1..Len(ts) :
        Cardinality(PairDestinations(ts, ts[i].from, ts[i].symbol)) >= 2

\* The identifiers reachable from the start state along transitions
RECURSIVE ReachClosure(_, _)
ReachClosure(a, ids) ==
    LET more == ids \cup {a.transitions[i].to :
                              i \in {j \in 1..Len(a.transitions) :
                                        a.transitions[j].from \in ids}}
    IN IF more = ids THEN ids ELSE ReachClosure(a, more)

ReachableIds(a) ==
    IF a.startState = Null \/ a.startState = "" THEN {}
    ELSE ReachClosure(a, {a.startState})

\* Some (state, alphabet symbol) pair of the automaton has no transition
Incomplete(a) ==
    \E s \in Range(a.states) :
        \E i \in 1..Len(a.transitions) :
            /\ a.transitions[i].symbol \notin EpsilonMarkers
            /\ PairDestinations(a.transitions, s, a.transitions[i].symbol) = {}

\* The spreadsheet column sequence A..Z, AA..AZ, BA.., from index 0
RECURSIVE ColumnName(_)
ColumnName(n) ==
    IF n = 0 THEN ""
    ELSE ColumnName((n - 1) \div 26) \o Letters[((n - 1) % 26) + 1]

SpreadsheetColumnName(index) == ColumnName(index + 1)

(***************************************************************************)
(* C1.  After any sequence of editing operations the type field is what    *)
(* the classifier computes from the current transitions: DFA iff no        *)
(* transition carries an epsilon marker and no (from, symbol) pair has     *)
(* more than one distinct destination.                                     *)
(***************************************************************************)
TypeMatchesTransitions ==
    automaton # NoAutomaton =>
        /\ automaton.type = determineAutomatonType(automaton)
        /\ automaton.type = "DFA" <=>
               (~UsesEpsilon(automaton.transitions) /\ ~Branches(automaton.transitions))

(***************************************************************************)
(* C2.  A held MinimizationResult never survives a structural change: an   *)
(* addState, removeState, addTransition or removeTransition that changes   *)
(* the states or the transitions while a result is held clears the result. *)
(***************************************************************************)
StructuralEdit == AddState \/ RemoveState \/ AddTransition \/ RemoveTransition

ResultClearedByStructuralEdit ==
    [][(/\ minimizationResult # NoResult
        /\ StructuralEdit
        /\ \/ automaton'.states # automaton.states
           \/ automaton'.transitions # automaton.transitions)
       => minimizationResult' = NoResult]_vars

(***************************************************************************)
(* C3.  Acceptance equivalence of subset construction: for every NFA N and *)
(* every input string w, testString(N, w).accepted equals                  *)
(* testString(convertNFAToDFA(N), w).accepted.                             *)
(***************************************************************************)
AcceptanceEquivalence ==
    pc = "tested" => output.nfa.accepted = output.dfa.accepted

(***************************************************************************)
(* C4.  Minimization preserves acceptance: for every complete DFA D and    *)
(* every input string w, testString(D, w).accepted equals                  *)
(* testString(minimizeDFAWithDetails(D).minimizedDFA, w).accepted.         *)
(***************************************************************************)
MinimizationPreservesAcceptance ==
    pc = "tested" => output.original.accepted = output.minimized.accepted

\* An accepted word of full length, on a DFA with several final states whose
\* reachable states minimization merged into fewer, but more than one
MergedDFAAcceptsWord ==
    /\ pc = "tested"
    /\ output.original.accepted
    /\ Len(output.word) = MaxWordLength
    /\ Len(input.finalStates) >= 2
    /\ Len(output.result.minimizedDFA.states) < Cardinality(ReachableIds(input))
    /\ Len(output.result.minimizedDFA.states) >= 2

(***************************************************************************)
(* C5.  Minimality: the minimized DFA has at most as many states as the    *)
(* completed input has states reachable from its start state, and          *)
(* minimizing the minimized DFA again ends with one block per state and    *)
(* the same number of states.                                              *)
(***************************************************************************)
MinimizedIsSmallAndFixpoint ==
    /\ pc \in {"minimized", "minimizedAgain"} =>
          Len(output.result.minimizedDFA.states)
              <= Cardinality(ReachableIds(makeCompleteDFA(input)))
    /\ pc = "minimizedAgain" =>
          /\ \A i \in 1..Len(output.again.partitions) :
                 Len(output.again.partitions[i]) = 1
          /\ Len(output.again.partitions) = Len(output.result.minimizedDFA.states)
          /\ Len(output.again.minimizedDFA.states)
                 = Len(output.result.minimizedDFA.states)

\* A second run on a minimized DFA of two or more states that merged some states
SecondRunOnMergedDFA ==
    /\ pc = "minimizedAgain"
    /\ Len(output.result.minimizedDFA.states) >= 2
    /\ Len(output.result.minimizedDFA.states)
           < Cardinality(ReachableIds(makeCompleteDFA(input)))
    /\ Len(output.again.partitioningSteps) >= 2

(***************************************************************************)
(* C6.  Subset construction is total and deterministic: for every NFA the  *)
(* result R of convertNFAToDFA has type DFA, the classifier returns DFA on *)
(* R, isCompleteDFA(R) holds, and every state of R, the dead state         *)
(* included, has exactly one transition on every non-epsilon symbol of the *)
(* input.                                                                  *)
(***************************************************************************)
ConversionYieldsCompleteDFA ==
    pc = "converted" =>
        LET R == output.dfa
            alphabet == {input.transitions[i].symbol :
                            i \in 1..Len(input.transitions)} \ EpsilonMarkers
        IN /\ R.type = "DFA"
           /\ determineAutomatonType(R) = "DFA"
           /\ ~UsesEpsilon(R.transitions)
           /\ ~Branches(R.transitions)
           /\ isCompleteDFA(R)
           /\ \A s \in Range(R.states) : \A x \in alphabet :
                  Cardinality({j \in 1..Len(R.transitions) :
                                  /\ R.transitions[j].from = s
                                  /\ R.transitions[j].symbol = x}) = 1

\* An NFA with an epsilon transition and a branching pair, converted to a DFA
\* that has a non-final state looping to itself on every symbol (the dead state)
ConvertedWithDeadState ==
    /\ pc = "converted"
    /\ UsesEpsilon(input.transitions)
    /\ Branches(input.transitions)
    /\ Len(output.dfa.states) >= 3
    /\ \E d \in Range(output.dfa.states) :
          /\ ~Includes(output.dfa.finalStates, d)
          /\ \E j \in 1..Len(output.dfa.transitions) :
                 output.dfa.transitions[j].to = d /\ output.dfa.transitions[j].from # d
          /\ \A j \in 1..Len(output.dfa.transitions) :
                 output.dfa.transitions[j].from = d => output.dfa.transitions[j].to = d

(***************************************************************************)
(* C7.  Equivalence classes partition the reachable states.  As claimed:   *)
(* the sets in equivalentStates are pairwise disjoint, their union is the  *)
(* set of the input's own states reachable from startState, and the        *)
(* minimized states have pairwise distinct identifiers.                    *)
(***************************************************************************)
BlocksDisjointAndNamed(result) ==
    LET eq == result.equivalentStates
    IN /\ \A i, j \in 1..Len(eq) :
              i # j => /\ Range(eq[i].states) \cap Range(eq[j].states) = {}
                       /\ eq[i].minimizedState # eq[j].minimizedState
       /\ \A i, j \in 1..Len(result.minimizedDFA.states) :
              i # j => result.minimizedDFA.states[i] # result.minimizedDFA.states[j]

BlocksUnion(result) ==
    UNION {Range(result.equivalentStates[i].states) :
               i \in 1..Len(result.equivalentStates)}

NamesAreSpreadsheetColumns ==
    pc = "named" => output = SpreadsheetColumnName(input)

(***************************************************************************)
(* C9.  Classifier correctness: determineAutomatonType returns NFA for a   *)
(* transition list with an epsilon marker, NFA for an epsilon-free list in *)
(* which some (from, symbol) pair has two or more distinct destinations,   *)
(* and DFA for an epsilon-free list of one-character symbols in which      *)
(* every pair has one distinct destination, repeated triples counted once. *)
(***************************************************************************)
ClassifierCorrect ==
    pc = "classified" =>
        LET ts == input.transitions
            oneCharacter == \A i \in 1..Len(ts) : Len(ts[i].symbol) = 1
        IN /\ UsesEpsilon(ts) => output = "NFA"
           /\ (~UsesEpsilon(ts) /\ Branches(ts)) => output = "NFA"
           /\ (~UsesEpsilon(ts) /\ ~Branches(ts) /\ oneCharacter) => output = "DFA"

\* A DFA verdict on a list that repeats a triple and uses an identifier with '-'
RepeatedTripleClassifiedDFA ==
    /\ pc = "classified"
    /\ output = "DFA"
    /\ Len(input.transitions) = 3
    /\ input.transitions[1] = input.transitions[3]
    /\ input.transitions[1].from = "A-"
    /\ input.transitions[2].from = "A"

(***************************************************************************)
(* C10.  Completion is idempotent: makeCompleteDFA applied to its own      *)
(* result adds no state and no transition.                                 *)
(***************************************************************************)
CompletionIdempotent ==
    pc = "completedAgain" =>
        /\ output.again.states = output.complete.states
        /\ output.again.transitions = output.complete.transitions

\* A second completion of a DFA to which the first one added a dead state
CompletedTwiceWithDeadState ==
    /\ pc = "completedAgain"
    /\ Len(output.complete.states) = Len(input.states) + 1
    /\ Len(output.complete.transitions) > Len(input.transitions) + 1

\* The non-epsilon symbols of the transitions, as a set
AlphabetSet(a) ==
    {a.transitions[i].symbol : i \in 1..Len(a.transitions)} \ EpsilonMarkers

\* The (state, symbol) pairs of the automaton without a transition
DeficientPairs(a) ==
    {pair \in Range(a.states) \X AlphabetSet(a) :
        PairDestinations(a.transitions, pair[1], pair[2]) = {}}

\* How many entries of the sequence equal x
Count(seq, x) == Cardinality({i \in 1..Len(seq) : seq[i] = x})

(***************************************************************************)
(* C11.  Completion of a DFA-classified automaton with a non-empty         *)
(* alphabet and a deficient (state, symbol) pair keeps the states,         *)
(* transitions, start state and final states, appends one state with a     *)
(* fresh identifier, one transition to it per deficient pair and one       *)
(* self-loop on it per alphabet symbol, never lists it as final, and the   *)
(* result is a complete DFA; a complete automaton or one with an empty     *)
(* alphabet is returned unchanged.                                         *)
(***************************************************************************)
CompletionAddsOneDeadState ==
    pc = "completed" =>
        LET d == input
            r == output.complete
            n == Len(d.states)
            k == Len(d.transitions)
            dead == r.states[Len(r.states)]
            added == SubSeq(r.transitions, k + 1, Len(r.transitions))
        IN IF AlphabetSet(d) = {} \/ DeficientPairs(d) = {} THEN r = d
           ELSE /\ Len(r.states) = n + 1
                /\ SubSeq(r.states, 1, n) = d.states
                /\ dead \notin Range(d.states)
                /\ SubSeq(r.transitions, 1, k) = d.transitions
                /\ Len(added) = Cardinality(DeficientPairs(d)) + Cardinality(AlphabetSet(d))
                /\ \A pair \in DeficientPairs(d) :
                      Count(added, [from |-> pair[1], to |-> dead, symbol |-> pair[2]]) = 1
                /\ \A x \in AlphabetSet(d) :
                      Count(added, [from |-> dead, to |-> dead, symbol |-> x]) = 1
                /\ r.startState = d.startState
                /\ r.finalStates = d.finalStates
                /\ ~Includes(r.finalStates, dead)
                /\ isCompleteDFA(r)

\* A completion over two symbols with two deficient pairs and a final state
CompletedTwoDeficientPairs ==
    /\ pc = "completed"
    /\ Cardinality(AlphabetSet(input)) = 2
    /\ Cardinality(DeficientPairs(input)) >= 2
    /\ input.finalStates # <<>>
    /\ output.complete # input

(***************************************************************************)
(* C12.  The DFA over {0,1} with states A, B, C, start A, final C and      *)
(* transitions A-0->B, A-1->A, B-0->C, B-1->A, C-0->C, C-1->A is minimal:  *)
(* minimization returns three states.  As stated, the trace has exactly    *)
(* one partitioning step, the initial split.                               *)
(***************************************************************************)
MinimalDFAOneStep ==
    (pc = "minimized" /\ input = CounterDFA("A", <<"C">>)) =>
        /\ Len(output.result.minimizedDFA.states) = 3
        /\ Len(output.result.partitioningSteps) = 1

\* C12 as the code has it: three states, and a trace of two steps: step 0, the
\* initial partition {A,B},{C}, and step 1, the split of {A,B} on symbol 0
MinimalDFATwoSteps ==
    (pc = "minimized" /\ input = CounterDFA("A", <<"C">>)) =>
        LET result == output.result
            steps == result.partitioningSteps
        IN /\ result.minimizedDFA.states = <<"A", "B", "C">>
           /\ result.partitions = <<<<"A">>, <<"B">>, <<"C">>>>
           /\ Len(steps) = 2
           /\ steps[1].step = 0
           /\ steps[1].partitionsBefore = <<>>
           /\ steps[1].partitionsAfter = <<<<"A", "B">>, <<"C">>>>
           /\ steps[2].step = 1
           /\ steps[2].splittingPartition = <<"A", "B">>
           /\ steps[2].partitionsBefore = <<<<"A", "B">>, <<"C">>>>
           /\ steps[2].partitionsAfter = <<<<"A">>, <<"B">>, <<"C">>>>
           /\ steps[2].splitDetails =
                  <<[symbol |-> "0", splitOccurred |-> TRUE,
                     splitResult |-> <<<<"A">>, <<"B">>>>]>>

\* The minimal DFA of the scenario has been minimized
MinimalDFAMinimized ==
    /\ pc = "minimized"
    /\ input = CounterDFA("A", <<"C">>)
    /\ Len(output.result.minimizedDFA.transitions) = 6

(***************************************************************************)
(* C13.  For the NFA with states A, B, C, start A, final C and transitions *)
(* A-ε->B, B-a->C, convertNFAToDFA gives state "A" (closure {A,B}) with a  *)
(* transition on "a" to state "B" (closure {C}), "B" final, "A" not final, *)
(* and the empty-set transition of "B" on "a" goes to a non-final dead     *)
(* state "C" that loops on "a".  As stated, the result is a 2-state DFA.   *)
(***************************************************************************)
ChainNFAGivesTwoStates ==
    (pc = "converted" /\ input = ChainNFA("ε", "A", <<"C">>)) =>
        LET R == output.dfa
        IN /\ Len(R.states) = 2
           /\ Includes(R.transitions, [from |-> "A", to |-> "B", symbol |-> "a"])
           /\ Includes(R.transitions, [from |-> "B", to |-> "C", symbol |-> "a"])
           /\ Includes(R.transitions, [from |-> "C", to |-> "C", symbol |-> "a"])
           /\ Includes(R.finalStates, "B")
           /\ ~Includes(R.finalStates, "A")
           /\ ~Includes(R.finalStates, "C")

\* C13 as the code has it: the result lists three states, the two subset states
\* "A" and "B" and the dead state "C", and exactly the three transitions named
ChainNFAGivesThreeStates ==
    (pc = "converted" /\ input = ChainNFA("ε", "A", <<"C">>)) =>
        output.dfa =
            [states |-> <<"A", "B", "C">>,
             transitions |-> <<[from |-> "A", to |-> "B", symbol |-> "a"],
                               [from |-> "B", to |-> "C", symbol |-> "a"],
                               [from |-> "C", to |-> "C", symbol |-> "a"]>>,
             startState |-> "A",
             finalStates |-> <<"B">>,
             type |-> "DFA"]

\* The NFA of the scenario has been converted
ChainNFAConverted ==
    /\ pc = "converted"
    /\ input = ChainNFA("ε", "A", <<"C">>)
    /\ output.dfa.startState = "A"

\* The (from, symbol) pairs of the transitions with several distinct destinations
BranchingPairs(ts) ==
    {pair \in {<<ts[i].from, ts[i].symbol>> : i \in 1..Len(ts)} :
        Cardinality(PairDestinations(ts, pair[1], pair[2])) >= 2}

(***************************************************************************)
(* C14.  For every automaton, with identifiers or symbols that may contain *)
(* '-', analyzeAutomaton lists in nondeterministicTransitions exactly one  *)
(* entry per (from, symbol) pair with more than one distinct destination;  *)
(* the entry carries that pair's identifier and symbol and exactly its     *)
(* distinct destinations.  hasNondeterministicTransitions is true iff the  *)
(* list is non-empty, hasEpsilonTransitions iff some transition carries an *)
(* epsilon-equivalent symbol.                                              *)
(***************************************************************************)
AnalysisListsBranchingPairs ==
    pc = "analyzed" =>
        LET analysis == output.analysis
            list == analysis.nondeterministicTransitions
            pairs == BranchingPairs(input.transitions)
        IN /\ Len(list) = Cardinality(pairs)
           /\ \A pair \in pairs :
                 \E i \in 1..Len(list) :
                     /\ list[i].from = pair[1]
                     /\ list[i].symbol = pair[2]
                     /\ Range(list[i].destinations) =
                            PairDestinations(input.transitions, pair[1], pair[2])
                     /\ Len(list[i].destinations) =
                            Cardinality(Range(list[i].destinations))
           /\ analysis.hasNondeterministicTransitions <=> (list # <<>>)
           /\ analysis.hasEpsilonTransitions <=> UsesEpsilon(input.transitions)

\* The identifier names a state of the current automaton
IsState(id) == automaton # NoAutomaton /\ Includes(automaton.states, id)

\* One callback runs with a request that references something nonexistent
NonexistentRequest ==
    /\ Counted
    /\ \/ \E from \in HookIds, to \in HookIds, symbol \in HookSymbols :
             /\ ~IsState(from) \/ ~IsState(to)
             /\ addTransition([from |-> from, to |-> to, symbol |-> symbol])
       \/ \E stateId \in HookIds :
             /\ ~IsState(stateId)
             /\ setStartState(stateId)
       \/ \E stateId \in HookIds :
             /\ ~IsState(stateId)
             /\ removeState(stateId)
       \/ \E from \in HookIds, to \in HookIds, symbol \in HookSymbols :
             /\ \/ automaton = NoAutomaton
                \/ ~Includes(automaton.transitions,
                             [from |-> from, to |-> to, symbol |-> symbol])
             /\ removeTransition(from, to, symbol)

(***************************************************************************)
(* C15.  In every reachable state of the hook a mutation request that      *)
(* references something nonexistent (addTransition with an unknown end,    *)
(* setStartState with an unknown identifier, removeState of an identifier  *)
(* that is no state, removeTransition of a triple that is no transition)   *)
(* leaves states, transitions, startState, finalStates and type unchanged. *)
(***************************************************************************)
NonexistentRequestIsNoOp ==
    [][NonexistentRequest => automaton' = automaton]_vars

(***************************************************************************)
(* C16.  minimizeDFAWithDetails on an automaton whose type is not DFA      *)
(* returns a degenerate result: originalDFA and minimizedDFA are both the  *)
(* input unchanged, and stateMapping, partitions, equivalentStates,        *)
(* combinedTransitions and partitioningSteps are all empty.                *)
(***************************************************************************)
NonDFAGivesDegenerateResult ==
    (pc = "minimized" /\ input.type # "DFA") =>
        /\ output.result.originalDFA = input
        /\ output.result.minimizedDFA = input
        /\ output.result.stateMapping = <<>>
        /\ output.result.partitions = <<>>
        /\ output.result.equivalentStates = <<>>
        /\ output.result.combinedTransitions = <<>>
        /\ output.result.partitioningSteps = <<>>

\* Minimization was requested for an NFA with an epsilon transition and a
\* branching pair, a start state and a final state
NFAMinimizationRequested ==
    /\ pc = "minimized"
    /\ input.type = "NFA"
    /\ UsesEpsilon(input.transitions)
    /\ Branches(input.transitions)
    /\ input.startState # Null
    /\ input.finalStates # <<>>

(***************************************************************************)
(* C17.  testString on an automaton whose startState is absent returns     *)
(* accepted = false with no path, for every input string, the empty one    *)
(* included, and for type DFA and type NFA; the hook's testString with no  *)
(* automaton at all returns accepted = false as well.                      *)
(***************************************************************************)
NoStartStateRejects ==
    (pc = "tested" /\ (automaton = NoAutomaton \/ automaton.startState = Null)) =>
        /\ output.result.accepted = FALSE
        /\ DOMAIN output.result = {"accepted"}
        /\ automaton # NoAutomaton =>
               testString(automaton, output.word) = [accepted |-> FALSE]

\* A string of full length was tested on an NFA without start state that has a
\* transition on the string's first character and lists a final state
StartlessNFATested ==
    /\ pc = "tested"
    /\ automaton # NoAutomaton
    /\ automaton.startState = Null
    /\ automaton.type = "NFA"
    /\ automaton.finalStates # <<>>
    /\ Len(output.word) = MaxWordLength
    /\ \E i \in 1..Len(automaton.transitions) :
          automaton.transitions[i].symbol = output.word[1]


(***************************************************************************)
(* C18.  isCompleteDFA answers true exactly when the type field is DFA, no  *)
(* transition carries an epsilon-equivalent symbol, no (from, symbol) pair *)
(* has more than one distinct destination, and every state has a           *)
(* transition on every non-epsilon symbol of the transitions; a DFA-typed  *)
(* automaton without transitions is complete.                              *)
(***************************************************************************)
CompleteExactlyWhenTotal ==
    pc = "answered" =>
        /\ output.complete <=>
               /\ input.type = "DFA"
               /\ ~UsesEpsilon(input.transitions)
               /\ BranchingPairs(input.transitions) = {}
               /\ DeficientPairs(input) = {}
        /\ (input.type = "DFA" /\ input.transitions = <<>>) => output.complete

\* A DFA-typed automaton whose two states each have their transition on the
\* one symbol in use was found complete
TotalAutomatonAnswered ==
    /\ pc = "answered"
    /\ input.type = "DFA"
    /\ Len(input.transitions) >= 2
    /\ DeficientPairs(input) = {}
    /\ output.complete = TRUE


(***************************************************************************)
(* C19.  For every DFA-classified input, an incomplete one included, the   *)
(* originalDFA of the result is the input as given: the same states,       *)
(* transitions, start state and final states, without the synthesized dead *)
(* state and without pruning; the input itself is as it was before the     *)
(* call.                                                                   *)
(***************************************************************************)
OriginalDFAIsInputAsGiven ==
    (pc = "minimized" /\ input.type = "DFA") =>
        /\ output.result.originalDFA = input
        /\ output.result.originalDFA.states = input.states
        /\ output.result.originalDFA.transitions = input.transitions
        /\ output.result.originalDFA.startState = input.startState
        /\ output.result.originalDFA.finalStates = input.finalStates

\* An incomplete input with an unreachable state was minimized: completion
\* added a dead state and the pruning dropped a state
IncompleteUnprunedMinimized ==
    /\ pc = "minimized"
    /\ input.type = "DFA"
    /\ DeficientPairs(input) # {}
    /\ Len(makeCompleteDFA(input).states) = Len(input.states) + 1
    /\ Len(ReachableDFA(makeCompleteDFA(input)).states) < Len(input.states)


(***************************************************************************)
(* C20.  When the hook's minimizeDFA is called while the current automaton *)
(* has type DFA and some state lacks a transition on some alphabet symbol, *)
(* a MinimizationResult becomes held, the current automaton becomes its    *)
(* minimized DFA, and that automaton is a complete DFA.                    *)
(***************************************************************************)
IncompleteDFARequest ==
    /\ pc = "hook"
    /\ automaton # NoAutomaton
    /\ automaton.type = "DFA"
    /\ DeficientPairs(automaton) # {}
    /\ MinimizeDFA

IncompleteDFAIsMinimized ==
    [][IncompleteDFARequest =>
          /\ minimizationResult' # NoResult
          /\ minimizationResult' = minimizeDFAWithDetails(automaton)
          /\ automaton' = minimizationResult'.minimizedDFA
          /\ isCompleteDFA(automaton')]_vars


(***************************************************************************)
(* C21.  Whenever the trace of a minimization has exactly one partitioning *)
(* step, the minimized DFA has as many states as the input DFA, for every  *)
(* DFA-classified input, unreachable states included.                      *)
(***************************************************************************)
OneStepMeansAlreadyMinimal ==
    (pc = "minimized" /\ input.type = "DFA"
     /\ Len(output.result.partitioningSteps) = 1) =>
        Len(output.result.originalDFA.states) = Len(output.result.minimizedDFA.states)


\* The blocks that list a destination of the state on the symbol
TargetBlocks(dfa, partitions, state, symbol) ==
    {k \in 1..Len(partitions) :
        \E j \in 1..Len(dfa.transitions) :
            /\ dfa.transitions[j].from = state
            /\ dfa.transitions[j].symbol = symbol
            /\ Includes(partitions[k], dfa.transitions[j].to)}

\* No block has two members that reach different blocks, or one of them no
\* block, on some symbol of the alphabet
NothingToSplit(dfa, alphabet, partitions) ==
    \A k \in 1..Len(partitions) : \A a \in 1..Len(alphabet) :
        \A x, y \in Range(partitions[k]) :
            TargetBlocks(dfa, partitions, x, alphabet[a])
                = TargetBlocks(dfa, partitions, y, alphabet[a])

\* The recorded steps after step 0 that changed the partitions
SplitSteps(steps) ==
    {k \in 2..Len(steps) : steps[k].partitionsAfter # steps[k].partitionsBefore}

RefinementBounded ==
    pc \in {"refining", "refined"} =>
        /\ Cardinality(SplitSteps(output.st.partitioningSteps))
              <= Len(output.dfa.states)
                   - Len(output.st.partitioningSteps[1].partitionsAfter)
        /\ pc = "refined" =>
               /\ NothingToSplit(output.dfa, output.alphabet, output.st.partitions)
               /\ output.st.partitions = minimizeDFAWithDetails(input).partitions

SplitAddsBlocks ==
    (pc = "refining" /\ output'.st.partitions # output.st.partitions) =>
        /\ Len(output'.st.partitions) > Len(output.st.partitions)
        /\ ~NothingToSplit(output.dfa, output.alphabet, output.st.partitions)

\* What is left of the loop: the blocks that splits can still add, then the
\* partitions the current scan has still to pass
LoopVariant(loop) ==
    (Len(loop.dfa.states) - Len(loop.st.partitions)) * (Len(loop.dfa.states) + 2)
        + (Len(loop.st.partitions) + 1 - loop.i)

\* Inside the loop a step is always possible, and each one brings the end nearer
LoopAdvances ==
    pc = "refining" =>
        /\ LoopVariant(output) >= 0
        /\ ENABLED NextRefine

LoopVariantDecreases ==
    (pc = "refining" /\ pc' = "refining") => LoopVariant(output') < LoopVariant(output)

(***************************************************************************)
(* C22.  For every DFA-classified input the refinement loop terminates:    *)
(* every split strictly increases the number of blocks, the number of      *)
(* splits is at most the number of reachable states minus the number of    *)
(* initial blocks, and the loop is left exactly when a full scan finds no  *)
(* block of more than one member whose members reach different blocks, or  *)
(* a missing transition, on some alphabet symbol.  Termination is the      *)
(* strict decrease of a non-negative variant at every step of the loop,    *)
(* none of which can block.                                                *)
(***************************************************************************)
RefinementTerminates ==
    /\ [](RefinementBounded /\ LoopAdvances)
    /\ [][SplitAddsBlocks /\ LoopVariantDecreases]_vars

\* The loop was left after at least one split
RefinedAfterSplit ==
    /\ pc = "refined"
    /\ SplitSteps(output.st.partitioningSteps) # {}


\* The lists of blocks that put the sub-groups in the place of the block at
\* some position of before
InPlaceReplacements(before, block, subGroups) ==
    {SubSeq(before, 1, i - 1) \o subGroups \o SubSeq(before, i + 1, Len(before)) :
        i \in {j \in 1..Len(before) : before[j] = block}}

\* The sub-groups are non-empty, pairwise disjoint and together list the block
SubGroupsOf(block, subGroups) ==
    /\ \A g \in 1..Len(subGroups) : subGroups[g] # <<>>
    /\ \A g, h \in 1..Len(subGroups) :
           g # h => Range(subGroups[g]) \cap Range(subGroups[h]) = {}
    /\ UNION {Range(subGroups[g]) : g \in 1..Len(subGroups)} = Range(block)

\* One entry after step 0 against the entry before it
StepFollows(previous, entry) ==
    /\ entry.step = previous.step + 1
    /\ entry.partitionsBefore = previous.partitionsAfter
    /\ \/ entry.partitionsAfter = entry.partitionsBefore
       \/ \E d \in 1..Len(entry.splitDetails) :
              /\ entry.splitDetails[d].splitOccurred
              /\ Len(entry.splitDetails[d].splitResult) > 1
              /\ SubGroupsOf(entry.splittingPartition, entry.splitDetails[d].splitResult)
              /\ entry.partitionsAfter \in
                     InPlaceReplacements(entry.partitionsBefore,
                                         entry.splittingPartition,
                                         entry.splitDetails[d].splitResult)

(***************************************************************************)
(* C23.  The partitioning-step trace of a DFA minimization is              *)
(* self-consistent: the first entry is step 0 with no partitions before    *)
(* and the initial blocks after; the step numbers are 0, 1, 2, ... in      *)
(* recorded order; each later entry starts from the partitions the entry   *)
(* before it ended with; its partitionsAfter is its partitionsBefore with  *)
(* splittingPartition replaced in place by its sub-groups, or equal to it  *)
(* when no symbol split it; the last entry ends with the final partitions. *)
(***************************************************************************)
TraceSelfConsistent ==
    (pc = "minimized" /\ input.type = "DFA") =>
        LET steps == output.result.partitioningSteps
            pruned == ReachableDFA(makeCompleteDFA(input))
        IN /\ Len(steps) >= 1
           /\ steps[1].step = 0
           /\ steps[1].partitionsBefore = <<>>
           /\ steps[1].partitionsAfter = InitialPartitions(pruned)
           /\ \A b \in 1..Len(steps[1].partitionsAfter) :
                  /\ steps[1].partitionsAfter[b] # <<>>
                  /\ \/ Range(steps[1].partitionsAfter[b]) \subseteq Range(pruned.finalStates)
                     \/ Range(steps[1].partitionsAfter[b]) \cap Range(pruned.finalStates) = {}
           /\ UNION {Range(steps[1].partitionsAfter[b]) :
                        b \in 1..Len(steps[1].partitionsAfter)} = Range(pruned.states)
           /\ \A k \in 1..Len(steps) : steps[k].step = k - 1
           /\ \A k \in 2..Len(steps) : StepFollows(steps[k - 1], steps[k])
           /\ steps[Len(steps)].partitionsAfter = output.result.partitions

\* A trace with a step that split a block and a later step that split nothing
TraceWithSplitAndCheck ==
    /\ pc = "minimized"
    /\ input.type = "DFA"
    /\ LET steps == output.result.partitioningSteps
       IN \E j, k \in 2..Len(steps) :
              /\ j < k
              /\ steps[j].partitionsAfter # steps[j].partitionsBefore
              /\ steps[k].partitionsAfter = steps[k].partitionsBefore


\* The transitions of the pruned DFA that leave a state mapped to m on symbol s,
\* in the order of the pruned DFA
CollapsedInto(pruned, stateMapping, m, s) ==
    LET Collapsed(t) == stateMapping[t.from] = m /\ t.symbol = s
    IN SelectSeq(pruned.transitions, Collapsed)

(***************************************************************************)
(* C24.  For every DFA-classified input, minimized state m and symbol s:   *)
(* combinedTransitions[m][s].originalTransitions is exactly the list of    *)
(* the pruned DFA's transitions whose source maps to m and whose symbol is *)
(* s; each of them has its destination mapped to combinedTransitions[m][s] *)
(* .to; and the minimized DFA has exactly one transition from m on s, the  *)
(* one to that target.                                                     *)
(***************************************************************************)
CombinedTransitionsExact ==
    (pc = "minimized" /\ input.type = "DFA") =>
        LET result == output.result
            pruned == ReachableDFA(makeCompleteDFA(input))
            minimized == result.minimizedDFA
            OnPair(m, s) == {j \in 1..Len(minimized.transitions) :
                                /\ minimized.transitions[j].from = m
                                /\ minimized.transitions[j].symbol = s}
        IN /\ DOMAIN result.combinedTransitions = Range(minimized.states)
           /\ \A m \in Range(minimized.states) :
                  \A s \in {pruned.transitions[j].symbol :
                                j \in 1..Len(pruned.transitions)} :
                      LET collapsed ==
                              CollapsedInto(pruned, result.stateMapping, m, s)
                      IN IF collapsed = <<>>
                         THEN /\ s \notin DOMAIN result.combinedTransitions[m]
                              /\ OnPair(m, s) = {}
                         ELSE /\ s \in DOMAIN result.combinedTransitions[m]
                              /\ result.combinedTransitions[m][s].originalTransitions
                                    = collapsed
                              /\ \A j \in 1..Len(collapsed) :
                                     result.stateMapping[collapsed[j].to]
                                         = result.combinedTransitions[m][s].to
                              /\ Cardinality(OnPair(m, s)) = 1
                              /\ \A j \in OnPair(m, s) :
                                     minimized.transitions[j].to
                                         = result.combinedTransitions[m][s].to

\* Transitions of two different states collapsed into one minimized transition
TwoSourcesCollapsed ==
    /\ pc = "minimized"
    /\ input.type = "DFA"
    /\ \E m \in DOMAIN output.result.combinedTransitions :
           \E s \in DOMAIN output.result.combinedTransitions[m] :
               LET originals == output.result.combinedTransitions[m][s].originalTransitions
               IN \E j, k \in 1..Len(originals) : originals[j].from # originals[k].from


\* The states reachable from ids along transitions with an epsilon marker
RECURSIVE EpsilonReach(_, _)
EpsilonReach(a, ids) ==
    LET more == ids \cup {a.transitions[i].to :
                              i \in {j \in 1..Len(a.transitions) :
                                        /\ a.transitions[j].from \in ids
                                        /\ a.transitions[j].symbol \in EpsilonMarkers}}
    IN IF more = ids THEN ids ELSE EpsilonReach(a, more)

\* The epsilon-closed set of states an NFA is in after a word
RECURSIVE SetAfter(_, _, _)
SetAfter(a, set, word) ==
    IF word = <<>> THEN set
    ELSE SetAfter(a,
             EpsilonReach(a, {a.transitions[i].to :
                                 i \in {j \in 1..Len(a.transitions) :
                                           /\ a.transitions[j].from \in set
                                           /\ a.transitions[j].symbol = Head(word)}}),
             Tail(word))

\* The state a deterministic automaton is in after a word; Null off the map
RECURSIVE StateAfter(_, _, _)
StateAfter(a, state, word) ==
    IF word = <<>> THEN state
    ELSE LET to == PairDestinations(a.transitions, state, Head(word))
         IN IF Cardinality(to) # 1 THEN Null
            ELSE StateAfter(a, CHOOSE t \in to : TRUE, Tail(word))

(***************************************************************************)
(* C25.  In the result of convertNFAToDFA distinct reachable               *)
(* epsilon-closed NFA state sets have distinct DFA states, a DFA state is  *)
(* final iff the set it stands for contains a final state of the NFA, and  *)
(* the dead state is never final; also for identifiers that contain ','    *)
(* and for the empty identifier.  The set and the DFA state of a word are  *)
(* those the NFA and the DFA are in after reading it.                      *)
(***************************************************************************)
SubsetStatesDistinctAndFinal ==
    pc = "converted" =>
        LET words == Words({"0", "1"}, MaxWordLength)
            SetOf(w) == SetAfter(input, EpsilonReach(input, {input.startState}), w)
            StateOf(w) == StateAfter(output.dfa, output.dfa.startState, w)
        IN /\ \A v, w \in words :
                  (SetOf(v) # {} /\ SetOf(w) # {} /\ SetOf(v) # SetOf(w)) =>
                      StateOf(v) # StateOf(w)
           /\ \A w \in words :
                  Includes(output.dfa.finalStates, StateOf(w))
                      <=> SetOf(w) \cap Range(input.finalStates) # {}


\* No transition with an epsilon marker leaves the set
EpsilonClosed(a, set) ==
    \A i \in 1..Len(a.transitions) :
        (a.transitions[i].from \in set /\ a.transitions[i].symbol \in EpsilonMarkers)
            => a.transitions[i].to \in set

(***************************************************************************)
(* C26.  For every automaton and seed set, epsilon cycles and self-loops   *)
(* included, epsilonClosure returns exactly the states reachable from the  *)
(* seeds by zero or more transitions whose symbol is an epsilon marker: it *)
(* contains the seeds, is closed under epsilon transitions, is contained   *)
(* in every closed set that contains the seeds, and is its own closure.    *)
(***************************************************************************)
ClosureIsEpsilonReachability ==
    pc = "closed" =>
        /\ output.closure = EpsilonReach(input, output.states)
        /\ output.states \subseteq output.closure
        /\ EpsilonClosed(input, output.closure)
        /\ \A set \in SUBSET Range(input.states) :
               (output.states \subseteq set /\ EpsilonClosed(input, set))
                   => output.closure \subseteq set
        /\ epsilonClosure(input, output.closure) = output.closure

\* One seed whose closure is all three states of an automaton in which every
\* state has an epsilon transition: the closure went round a cycle or self-loop
ClosureAroundCycle ==
    /\ pc = "closed"
    /\ Cardinality(output.states) = 1
    /\ Cardinality(output.closure) = 3
    /\ \A state \in output.closure :
           \E i \in 1..Len(input.transitions) :
               /\ input.transitions[i].from = state
               /\ input.transitions[i].symbol \in EpsilonMarkers


\* No element of the sequence occurs twice
NoRepeats(seq) == \A i, j \in 1..Len(seq) : seq[i] = seq[j] => i = j

(***************************************************************************)
(* C27.  After any sequence of the hook's operations from the empty state  *)
(* the current automaton is well-formed: its state identifiers are         *)
(* pairwise distinct, its start state is absent or an existing state,      *)
(* every final state is an existing state, both ends of every transition   *)
(* are existing states, and no (from, to, symbol) triple occurs twice.     *)
(***************************************************************************)
AutomatonWellFormed ==
    automaton # NoAutomaton =>
        /\ NoRepeats(automaton.states)
        /\ automaton.startState = Null \/ IsState(automaton.startState)
        /\ \A i \in 1..Len(automaton.finalStates) : IsState(automaton.finalStates[i])
        /\ \A i \in 1..Len(automaton.transitions) :
               /\ IsState(automaton.transitions[i].from)
               /\ IsState(automaton.transitions[i].to)
        /\ NoRepeats(automaton.transitions)

\* An automaton with a start state, a final state and a transition was built
\* by the editing operations and then minimized
MinimizedAfterEdits ==
    /\ automaton # NoAutomaton
    /\ minimizationResult # NoResult
    /\ automaton.startState # Null
    /\ automaton.finalStates # <<>>
    /\ automaton.transitions # <<>>


(***************************************************************************)
(* C28.  After any sequence of the hook's operations from the empty state, *)
(* nothing loaded from outside, an automaton of type DFA has transitions   *)
(* that are deterministic and epsilon-free: determineAutomatonType returns *)
(* DFA for it, so minimizeDFA and the deterministic acceptance walk never  *)
(* meet an epsilon marker or two destinations of one (from, symbol) pair.  *)
(***************************************************************************)
DFATypeIsSound ==
    (automaton # NoAutomaton /\ automaton.type = "DFA") =>
        /\ determineAutomatonType(automaton) = "DFA"
        /\ ~UsesEpsilon(automaton.transitions)
        /\ BranchingPairs(automaton.transitions) = {}

\* A DFA with two transitions was built by the editing operations and minimized
TwoTransitionDFAMinimized ==
    /\ automaton # NoAutomaton
    /\ automaton.type = "DFA"
    /\ minimizationResult # NoResult
    /\ Len(minimizationResult.originalDFA.transitions) >= 2


(***************************************************************************)
(* C29.  For an automaton whose transitions are epsilon-free with at most  *)
(* one distinct destination per (from, symbol) pair, and every input       *)
(* string, testString returns the same accepted value with type DFA as     *)
(* with type NFA.                                                          *)
(***************************************************************************)
VerdictIndependentOfType ==
    (pc = "tested"
     /\ ~UsesEpsilon(input.transitions)
     /\ BranchingPairs(input.transitions) = {}) =>
        output.asDFA.accepted = output.asNFA.accepted

\* A string of two or more symbols was accepted by the deterministic walk
LongWordAcceptedAsDFA ==
    /\ pc = "tested"
    /\ ~UsesEpsilon(input.transitions)
    /\ BranchingPairs(input.transitions) = {}
    /\ Len(output.word) >= 2
    /\ output.asDFA.accepted = TRUE


(***************************************************************************)
(* C30.  In every reachable state of the hook, showOriginalDFA is true     *)
(* only while a MinimizationResult is held, and while one is held the      *)
(* current automaton is the result's originalDFA if showOriginalDFA is     *)
(* true and its minimizedDFA otherwise, so that two toggleDFAView calls in *)
(* a row bring the current automaton back.                                 *)
(***************************************************************************)
ViewMatchesHeldResult ==
    /\ showOriginalDFA => minimizationResult # NoResult
    /\ minimizationResult # NoResult =>
           automaton = IF showOriginalDFA
                       THEN minimizationResult.originalDFA
                       ELSE minimizationResult.minimizedDFA

====
